---------------------------- MODULE Spec2Model ----------------------------
(***************************************************************************)
(* osci-rs: the real-time rendering pipeline.                              *)
(*                                                                         *)
(*   audio/buffer.rs   SampleBuffer, the cross-thread ring buffer          *)
(*   audio/engine.rs   AudioEngine (control surface, UI thread) and        *)
(*                     write_audio_samples (the render callback)           *)
(*   shapes/*.rs       the curves that set_shape pre-samples               *)
(*   effects/*.rs      the effect chain the callback applies               *)
(*                                                                         *)
(* Coordinates are f32 in the source.  Here they are fixed-point integers  *)
(* in units of 1/Unit (1.0 is Unit), products are divided by Unit and      *)
(* quotients are floored.  Times are kept as the exact pair                *)
(* (sample count, sample rate), frequencies are whole Hz.                  *)
(***************************************************************************)
EXTENDS Integers, Sequences, FiniteSets, TLC

VARIABLES
    \* ---- SampleBuffer (BufferInner behind Arc<Mutex<..>>) ----
    samples,            \* BufferInner.samples: the C slots
    write_pos,          \* BufferInner.write_pos
    samples_written,    \* BufferInner.samples_written
    inner_lock,         \* the Mutex: 0 when free, else the reader thread holding it
    rd_pc,              \* per reader thread: position inside a blocking read
    rd_op,              \* per reader thread: the read it is executing
    rd_result,          \* per reader thread: the Vec the read returns
    last_op,            \* the last non-blocking buffer call and what it returned
    window,             \* history: the last C values of (C defaults, then every stored sample)
    stored,             \* history: samples stored since construction or the last clear (capped)
    \* ---- AudioEngine, fields owned by the UI thread ----
    config,             \* AudioEngine.config: [frequency, volume]
    sample_rate,        \* AudioEngine.sample_rate
    samples_per_shape,  \* AudioEngine.samples_per_shape
    \* ---- AudioEngine, state shared with the audio thread ----
    shape_data,         \* the ShapeData behind Arc<RwLock<..>>: [samples, name]
    last_shape,         \* history: the inputs of the last set_shape call
    is_playing,         \* AudioEngine.is_playing (AtomicBool)
    stream,             \* AudioEngine.stream: NoStream or the cpal stream held
    status,             \* AudioEngine.status
    sample_index,       \* AudioEngine.sample_index (AtomicUsize)
    total_samples,      \* AudioEngine.total_samples (AtomicU64)
    effect_params,      \* the EffectParams behind Arc<RwLock<..>>
    shape_lock,         \* RwLock of shape_data: [writer, readers]
    effects_lock,       \* RwLock of effect_params: TRUE while set_effects holds the write lock
    ui,                 \* the UI thread: the control-surface call it is in, and its locals
    cb,                 \* the audio thread: position in write_audio_samples, and its locals
    table_fresh,        \* history: no frame was rendered yet from the table set_shape published last
    stream_fresh,       \* history: the stream built last has not rendered a frame yet
    frames_done,        \* history: frames rendered since construction
    \* ---- pure functions exercised on their own ----
    call,               \* the function being called and its arguments
    result              \* the value the call returns

bufvars == <<samples, write_pos, samples_written, inner_lock, rd_pc, rd_op,
             rd_result, last_op, window, stored>>

shapevars == <<config, sample_rate, samples_per_shape, shape_data, last_shape>>

enginevars == <<is_playing, stream, status, sample_index, total_samples, effect_params,
                shape_lock, effects_lock, ui, cb, table_fresh, stream_fresh,
                frames_done>>

fnvars == <<call, result>>

vars == <<bufvars, shapevars, enginevars, fnvars>>

----------------------------------------------------------------------------
(* Bounds of the model *)

MaxCap       == 2      \* ring-buffer capacities 1..MaxCap
MaxVal       == 2      \* distinct sample values 1..MaxVal
MaxSlice     == 3      \* push_slice lengths 0..MaxSlice (longer than MaxCap)
MaxWritten   == 6      \* samples_written is a u64: stop storing beyond this
NumReaders   == 1      \* threads that read the buffer with a blocking lock

Min(a, b) == IF a < b THEN a ELSE b
Max(a, b) == IF a > b THEN a ELSE b

----------------------------------------------------------------------------
(* audio/buffer.rs *)

\* XYSample::new
XYSample(x, y) == [x |-> x, y |-> y]

\* #[derive(Default)] for XYSample
XYDefault == XYSample(0, 0)

SampleValues == { XYSample(v, v) : v \in 1..MaxVal }

Readers == 1..NumReaders

Capacity == Len(samples)

\* SampleBuffer::new(capacity)
BufferNew(capacity) ==
    /\ samples = [i \in 1..capacity |-> XYDefault]
    /\ write_pos = 0
    /\ samples_written = 0
    /\ inner_lock = 0

\* self.inner.try_lock() succeeds
TryLockOk == inner_lock = 0

\* the slots after `inner.samples[pos] = sample` (Vec index pos is sequence index pos+1)
StoreAt(slots, pos, sample) == [slots EXCEPT ![pos + 1] = sample]

\* a push_slice loop that advances the cursor without wrapping it
RECURSIVE StoreAllNoWrap(_, _, _)
StoreAllNoWrap(slots, pos, sl) ==
    IF sl = <<>> THEN [slots |-> slots, pos |-> pos]
    ELSE StoreAllNoWrap(StoreAt(slots, pos % Len(slots), Head(sl)), pos + 1, Tail(sl))

\* the loop of push_slice: slots and cursor after storing sl[1..] from pos
RECURSIVE StoreAll(_, _, _)
StoreAll(slots, pos, sl) ==
    IF sl = <<>> THEN [slots |-> slots, pos |-> pos]
    ELSE StoreAll(StoreAt(slots, pos, Head(sl)), (pos + 1) % Len(slots), Tail(sl))

\* history only: the window after one more stored sample
Shift(w, sample) == IF w = <<>> THEN w ELSE Append(Tail(w), sample)

RECURSIVE ShiftAll(_, _)
ShiftAll(w, sl) == IF sl = <<>> THEN w ELSE ShiftAll(Shift(w, Head(sl)), Tail(sl))

\* SampleBuffer::push: the state change when try_lock succeeds
PushOk(sample) ==
    LET len == Len(samples)
        pos == write_pos
    IN  /\ samples' = StoreAt(samples, pos, sample)
        /\ write_pos' = (pos + 1) % len
        /\ samples_written' = samples_written + 1
        /\ window' = Shift(window, sample)
        /\ stored' = Min(stored + 1, MaxWritten)

\* a push that counts the sample it dropped
PushEffectCountsDropped(sample) ==
    IF TryLockOk
    THEN PushOk(sample)
    ELSE /\ samples_written' = samples_written + 1
         /\ UNCHANGED <<samples, write_pos, window, stored>>

\* SampleBuffer::push as the caller sees it: the new buffer state
PushEffect(sample) ==
    IF TryLockOk
    THEN PushOk(sample)
    ELSE UNCHANGED <<samples, write_pos, samples_written, window, stored>>

\* SampleBuffer::push called by a thread on its own
Push(sample) ==
    /\ samples_written < MaxWritten
    /\ PushEffect(sample)
    /\ last_op' = [op |-> "push", ret |-> TryLockOk]
    /\ UNCHANGED <<inner_lock, rd_pc, rd_op, rd_result>>

\* SampleBuffer::push with the lock acquired, as a function of the buffer
\* [slots, pos, written]
PushState(b, sample) ==
    LET len == Len(b.slots)
        pos == b.pos
    IN  [slots |-> StoreAt(b.slots, pos, sample),
         pos |-> (pos + 1) % len,
         written |-> b.written + 1]

\* a push_slice that counts the slice as one sample
PushSliceCountsOne(sl) ==
    /\ samples_written + Len(sl) <= MaxWritten
    /\ IF TryLockOk
       THEN LET r == StoreAll(samples, write_pos, sl)
            IN  /\ samples' = r.slots
                /\ write_pos' = r.pos
                /\ samples_written' = samples_written + 1
                /\ window' = ShiftAll(window, sl)
                /\ stored' = Min(stored + Len(sl), MaxWritten)
       ELSE UNCHANGED <<samples, write_pos, samples_written, window, stored>>
    /\ last_op' = [op |-> "push_slice", ret |-> TryLockOk]
    /\ UNCHANGED <<inner_lock, rd_pc, rd_op, rd_result>>

\* SampleBuffer::push_slice
PushSlice(sl) ==
    /\ samples_written + Len(sl) <= MaxWritten
    /\ IF TryLockOk
       THEN LET r == StoreAll(samples, write_pos, sl)
            IN  /\ samples' = r.slots
                /\ write_pos' = r.pos
                /\ samples_written' = samples_written + Len(sl)
                /\ window' = ShiftAll(window, sl)
                /\ stored' = Min(stored + Len(sl), MaxWritten)
       ELSE UNCHANGED <<samples, write_pos, samples_written, window, stored>>
    /\ last_op' = [op |-> "push_slice", ret |-> TryLockOk]
    /\ UNCHANGED <<inner_lock, rd_pc, rd_op, rd_result>>

\* a clear that zeroes the slots and leaves the cursor where it was
ClearKeepsCursor ==
    /\ IF TryLockOk
       THEN /\ samples' = [i \in 1..Len(samples) |-> XYDefault]
            /\ write_pos' = write_pos
            /\ window' = [i \in 1..Len(samples) |-> XYDefault]
            /\ stored' = 0
       ELSE UNCHANGED <<samples, write_pos, window, stored>>
    /\ last_op' = [op |-> "clear", ret |-> TryLockOk]
    /\ UNCHANGED <<samples_written, inner_lock, rd_pc, rd_op, rd_result>>

\* SampleBuffer::clear
Clear ==
    /\ IF TryLockOk
       THEN /\ samples' = [i \in 1..Len(samples) |-> XYDefault]
            /\ write_pos' = 0
            /\ window' = [i \in 1..Len(samples) |-> XYDefault]
            /\ stored' = 0
       ELSE UNCHANGED <<samples, write_pos, window, stored>>
    /\ last_op' = [op |-> "clear", ret |-> TryLockOk]
    /\ UNCHANGED <<samples_written, inner_lock, rd_pc, rd_op, rd_result>>

\* get_samples that copies the slots from slot 0, ignoring the cursor
GetSamplesUnrotated == [i \in 1..Len(samples) |-> samples[i]]

\* SampleBuffer::get_samples: the Vec it builds under the lock
GetSamples ==
    LET len == Len(samples)
    IN  [i \in 1..len |-> samples[((write_pos + (i - 1)) % len) + 1]]

\* get_recent_samples that starts at the cursor instead of count slots before it
GetRecentSamplesFromCursor(count) ==
    LET len   == Len(samples)
        cnt   == Min(count, len)
        start == write_pos % len
    IN  [i \in 1..cnt |-> samples[((start + (i - 1)) % len) + 1]]

\* SampleBuffer::get_recent_samples: the Vec it builds under the lock
GetRecentSamples(count) ==
    LET len   == Len(samples)
        cnt   == Min(count, len)
        start == (write_pos + len - cnt) % len
    IN  [i \in 1..cnt |-> samples[((start + (i - 1)) % len) + 1]]

ReadOps ==
    {[name |-> "get_samples", count |-> 0], [name |-> "samples_written", count |-> 0]}
    \cup {[name |-> "get_recent_samples", count |-> n] : n \in 0..(MaxCap + 1)}

NoOp == [name |-> "none", count |-> 0]

\* self.inner.lock().unwrap(): blocks until the mutex is free
RdLock(r, op) ==
    /\ rd_pc[r] = "idle"
    /\ inner_lock = 0
    /\ inner_lock' = r
    /\ rd_pc' = [rd_pc EXCEPT ![r] = "locked"]
    /\ rd_op' = [rd_op EXCEPT ![r] = op]
    /\ UNCHANGED <<samples, write_pos, samples_written, rd_result, last_op, window, stored>>

\* the body of get_samples / get_recent_samples / samples_written, lock held
RdRead(r) ==
    /\ rd_pc[r] = "locked"
    /\ rd_result' = [rd_result EXCEPT ![r] =
            CASE rd_op[r].name = "get_samples"        -> GetSamples
              [] rd_op[r].name = "get_recent_samples" -> GetRecentSamples(rd_op[r].count)
              [] OTHER                                -> <<samples_written>>]
    /\ rd_pc' = [rd_pc EXCEPT ![r] = "read"]
    /\ UNCHANGED <<samples, write_pos, samples_written, inner_lock, rd_op, last_op, window, stored>>

\* the guard is dropped when the function returns
RdUnlock(r) ==
    /\ rd_pc[r] = "read"
    /\ inner_lock' = 0
    /\ rd_pc' = [rd_pc EXCEPT ![r] = "idle"]
    /\ rd_op' = [rd_op EXCEPT ![r] = NoOp]
    /\ rd_result' = [rd_result EXCEPT ![r] = <<>>]
    /\ UNCHANGED <<samples, write_pos, samples_written, last_op, window, stored>>

BufHistoryInit ==
    /\ rd_pc = [r \in Readers |-> "idle"]
    /\ rd_op = [r \in Readers |-> NoOp]
    /\ rd_result = [r \in Readers |-> <<>>]
    /\ last_op = [op |-> "none", ret |-> TRUE]
    /\ window = samples
    /\ stored = 0

----------------------------------------------------------------------------
(* shapes/primitives.rs: the curves (fixed-point, t given as the fraction i/n) *)

\* 1.0 in fixed-point units
Unit == 1000

\* Line::new(x1, y1, x2, y2)
Line(x1, y1, x2, y2) == [kind |-> "Line", x1 |-> x1, y1 |-> y1, x2 |-> x2, y2 |-> y2]

\* Rectangle::new(width, height)
Rectangle(width, height) ==
    [kind |-> "Rectangle", cx |-> 0, cy |-> 0,
     half_width |-> width \div 2, half_height |-> height \div 2]

\* x1 + t * (x2 - x1) with t = num/den
Lerp(a, b, num, den) == a + ((num * (b - a)) \div den)

\* <Line as Shape>::sample(i/n)
LineSample(s, i, n) ==
    XYSample(Lerp(s.x1, s.x2, i, n), Lerp(s.y1, s.y2, i, n))

\* Rectangle::corners, as a 1-based sequence
Corners(s) ==
    << XYSample(s.cx - s.half_width, s.cy + s.half_height),
       XYSample(s.cx + s.half_width, s.cy + s.half_height),
       XYSample(s.cx + s.half_width, s.cy - s.half_height),
       XYSample(s.cx - s.half_width, s.cy - s.half_height) >>

\* <Rectangle as Shape>::sample(i/n)
RectangleSample(s, i, n) ==
    LET segment == Min((4 * i) \div n, 3)
        local   == (4 * i) % n                   \* fract(t * 4.0) = local/n
        c1      == Corners(s)[segment + 1]
        c2      == Corners(s)[((segment + 1) % 4) + 1]
    IN  XYSample(Lerp(c1.x, c2.x, local, n), Lerp(c1.y, c2.y, local, n))

\* Shape::sample(t) for t = i/n
ShapeSample(s, i, n) ==
    IF s.kind = "Line" THEN LineSample(s, i, n) ELSE RectangleSample(s, i, n)

\* Shape::name
ShapeName(s) == s.kind

\* the curves handed to set_shape
Curves == { Line(-Unit, -Unit, Unit, Unit), Rectangle(Unit, Unit), Rectangle(1600, 800) }

----------------------------------------------------------------------------
(* audio/engine.rs: AudioConfig, ShapeData, set_shape's pre-sampling *)

\* ShapeData::default
ShapeDataDefault == [samples |-> <<>>, name |-> "None"]

\* AudioConfig::default (80 Hz, volume 0.8)
AudioConfigDefault == [frequency |-> 80, volume |-> 800]

\* set_shape without the minimum of 10 samples
SamplesPerShapeNoMin(rate, frequency) == rate \div frequency

\* set_shape: (sample_rate / frequency) as usize, then .max(10).
\* `as usize` truncates; sample_rate and frequency are positive here.
SamplesPerShape(rate, frequency) == Max(rate \div frequency, 10)

\* x * self.config.volume
ScaleByVolume(v, volume) == (v * volume) \div Unit

\* set_shape: the Vec it fills before taking the lock
PreSample(shape, n, volume) ==
    [k \in 1..n |->
        LET p == ShapeSample(shape, k - 1, n)
        IN  XYSample(ScaleByVolume(p.x, volume), ScaleByVolume(p.y, volume))]


\* no curve: the shape argument of a call that is not set_shape
NoCurve == [kind |-> "none"]

\* no set_shape call yet
NoShape == [shape |-> NoCurve, frequency |-> 0, rate |-> 0, volume |-> 0]

\* AudioEngine::new: the fields set_shape reads and writes
ShapeFieldsNew ==
    /\ config = AudioConfigDefault
    /\ sample_rate = 48000
    /\ samples_per_shape = 600
    /\ shape_data = ShapeDataDefault
    /\ last_shape = NoShape

----------------------------------------------------------------------------
(* effects/lfo.rs, effects/transform.rs, effects/traits.rs                  *)
(*                                                                          *)
(* A time is the pair (cs, rate): cs samples at rate Hz, the quotient       *)
(* `current_sample as f32 / sample_rate` of the callback.  Angles are in    *)
(* quarter turns (1 is pi/2 rad); cos and sin are exact on whole quarter    *)
(* turns, and rotation speeds are drawn so that every sample time gives one.*)
(* The sine waveform is Bhaskara's rational approximation on the            *)
(* fixed-point phase.                                                       *)

\* sin(phase * TAU) for a phase in [0, Unit)
SinePhase(phase) ==
    LET h == Unit \div 2
        k == IF phase < h THEN phase ELSE phase - h
        v == (Unit * 16 * k * (h - k)) \div (5 * h * h - 4 * k * (h - k))
    IN  IF phase < h THEN v ELSE 0 - v

\* LfoWaveform::sample(phase), phase in [0, Unit)
WaveformSample(w, phase) ==
    CASE w = "Sine"     -> SinePhase(phase)
      [] w = "Triangle" -> LET p == 4 * phase
                           IN  IF p < Unit THEN p
                               ELSE IF p < 3 * Unit THEN 2 * Unit - p
                               ELSE p - 4 * Unit
      [] w = "Square"   -> IF 2 * phase < Unit THEN Unit ELSE 0 - Unit
      [] w = "Sawtooth" -> 2 * phase - Unit
      [] OTHER          -> Unit - 2 * phase          \* ReverseSawtooth

\* Lfo::with_range(frequency, min, max)
LfoWithRange(frequency, min, max) ==
    [frequency |-> frequency, waveform |-> "Sine", min |-> min, max |-> max,
     phase_offset |-> 0, enabled |-> TRUE]

\* Lfo::new(frequency)
LfoNew(frequency) == LfoWithRange(frequency, 0 - Unit, Unit)

\* an Lfo that maps the raw waveform value to the range without normalizing it
LfoSampleRaw(lfo, cs, rate) ==
    IF ~lfo.enabled THEN (lfo.min + lfo.max) \div 2
    ELSE LET phase == ((((cs * lfo.frequency) % rate) * Unit) \div rate
                        + lfo.phase_offset) % Unit
             raw == WaveformSample(lfo.waveform, phase)
         IN  lfo.min + ((raw * (lfo.max - lfo.min)) \div Unit)

\* Lfo::sample(time) at time cs/rate
LfoSample(lfo, cs, rate) ==
    IF ~lfo.enabled THEN (lfo.min + lfo.max) \div 2
    ELSE LET \* ((time * frequency) + phase_offset).fract(), made non-negative
             phase == ((((cs * lfo.frequency) % rate) * Unit) \div rate
                        + lfo.phase_offset) % Unit
             raw == WaveformSample(lfo.waveform, phase)
             normalized == (raw + Unit) \div 2
         IN  lfo.min + ((normalized * (lfo.max - lfo.min)) \div Unit)

\* Rotate::animated(speed)
RotateAnimated(speed) == [kind |-> "Rotate", angle |-> 0, speed |-> speed, enabled |-> TRUE]

\* LfoScale::new(f, min, max).waveform(w)
LfoScaleNew(frequency, min, max, w) ==
    [kind |-> "LfoScale", base_scale |-> Unit,
     lfo |-> [LfoWithRange(frequency, min, max) EXCEPT !.waveform = w],
     enabled |-> TRUE]

\* cos and sin of q quarter turns
CosQ(q) == CASE q % 4 = 0 -> Unit [] q % 4 = 2 -> 0 - Unit [] OTHER -> 0
SinQ(q) == CASE q % 4 = 1 -> Unit [] q % 4 = 3 -> 0 - Unit [] OTHER -> 0

\* <Rotate as Effect>::apply
RotateApply(e, p, cs, rate) ==
    LET total_angle == e.angle + ((e.speed * cs) \div rate)
        cos_a == CosQ(total_angle)
        sin_a == SinQ(total_angle)
    IN  XYSample((p.x * cos_a - p.y * sin_a) \div Unit,
                 (p.x * sin_a + p.y * cos_a) \div Unit)

\* Rotate::with_speed(angle, speed)
RotateWithSpeed(angle, speed) ==
    [kind |-> "Rotate", angle |-> angle, speed |-> speed, enabled |-> TRUE]

\* Scale::new(x, y)
ScaleNew(x, y) == [kind |-> "Scale", x |-> x, y |-> y, enabled |-> TRUE]

\* Translate::new(x, y)
TranslateNew(x, y) == [kind |-> "Translate", x |-> x, y |-> y, enabled |-> TRUE]

\* <Scale as Effect>::apply
ScaleApply(e, p) == XYSample((p.x * e.x) \div Unit, (p.y * e.y) \div Unit)

\* <Translate as Effect>::apply
TranslateApply(e, p) == XYSample(p.x + e.x, p.y + e.y)

\* <LfoScale as Effect>::apply
LfoScaleApply(e, p, cs, rate) ==
    LET scale == LfoSample(e.lfo, cs, rate)
    IN  XYSample((p.x * scale) \div Unit, (p.y * scale) \div Unit)

\* Effect::apply
EffectApply(e, p, cs, rate) ==
    CASE e.kind = "Rotate"    -> RotateApply(e, p, cs, rate)
      [] e.kind = "Scale"     -> ScaleApply(e, p)
      [] e.kind = "Translate" -> TranslateApply(e, p)
      [] OTHER                -> LfoScaleApply(e, p, cs, rate)

\* a chain that applies its enabled effects last to first
RECURSIVE ChainApplyReversed(_, _, _, _)
ChainApplyReversed(chain, p, cs, rate) ==
    IF chain = <<>> THEN p
    ELSE LET q == ChainApplyReversed(Tail(chain), p, cs, rate)
         IN  IF Head(chain).enabled THEN EffectApply(Head(chain), q, cs, rate) ELSE q

\* EffectChain::apply: the enabled effects in order
RECURSIVE ChainApply(_, _, _, _)
ChainApply(chain, p, cs, rate) ==
    IF chain = <<>> THEN p
    ELSE ChainApply(Tail(chain),
                    IF Head(chain).enabled THEN EffectApply(Head(chain), p, cs, rate) ELSE p,
                    cs, rate)

\* EffectParams::default
EffectParamsDefault ==
    [rotation_speed |-> 0, rotation_enabled |-> FALSE,
     scale_lfo_freq |-> 1, scale_lfo_min |-> 800, scale_lfo_max |-> 1200,
     scale_lfo_enabled |-> FALSE, scale_lfo_waveform |-> "Sine"]

\* EffectParams::build_chain
BuildChain(e) ==
    (IF e.rotation_enabled /\ e.rotation_speed # 0
     THEN <<RotateAnimated(e.rotation_speed)>> ELSE <<>>)
    \o
    (IF e.scale_lfo_enabled
     THEN <<LfoScaleNew(e.scale_lfo_freq, e.scale_lfo_min, e.scale_lfo_max,
                        e.scale_lfo_waveform)>>
     ELSE <<>>)

\* EffectChain::default, the fallback of unwrap_or_default
EmptyChain == <<>>

\* the parameter structs the UI hands to set_effects: the default, and a
\* rotation of a whole number of quarter turns per sample
EffectChoices ==
    { EffectParamsDefault,
      [EffectParamsDefault EXCEPT !.rotation_enabled = TRUE, !.rotation_speed = 48000] }

----------------------------------------------------------------------------
(* audio/engine.rs: the device layer as start() sees it *)

NoStream == [some |-> FALSE, rate |-> 0, channels |-> 0, format |-> "none"]

\* the cpal::Stream built for a device configuration; its callback captures
\* channels, sample_rate and the sample type T
StreamOf(c) == [some |-> TRUE, rate |-> c.rate, channels |-> c.channels, format |-> c.format]

\* default_output_config() of the devices considered
DeviceConfigs ==
    { [rate |-> 48000, channels |-> 3, format |-> "U16"],
      [rate |-> 48000, channels |-> 1, format |-> "I16"] }

\* a device whose sample format start() does not handle
UnsupportedConfig == [rate |-> 48000, channels |-> 2, format |-> "F64"]

\* what the host and device answer during one start()
StartOutcomes ==
    { [kind |-> k, cfg |-> UnsupportedConfig] : k \in {"no_device", "no_config", "ok"} }
    \cup { [kind |-> k, cfg |-> c] : k \in {"ok", "build_error"}, c \in DeviceConfigs }

\* T::EQUILIBRIUM for f32, i16, u16
Equilibrium(format) == IF format = "U16" THEN 32768 ELSE 0

\* a silence loop that stops after the first frame
SilenceFirstFrame(data, channels, format) ==
    [k \in 1..Len(data) |-> IF k <= channels THEN Equilibrium(format) ELSE data[k]]

\* for sample in data.iter_mut() { *sample = T::EQUILIBRIUM }
Silence(data, channels, format) == [k \in 1..Len(data) |-> Equilibrium(format)]

Clamp(v, lo, hi) == IF v < lo THEN lo ELSE IF v > hi THEN hi ELSE v

\* T::from_sample(v) for f32 (the value itself), i16 and u16
FromSample(format, v) ==
    CASE format = "I16" -> Clamp((v * 32768) \div Unit, -32768, 32767)
      [] format = "U16" -> Clamp((v * 32768) \div Unit, -32768, 32767) + 32768
      [] OTHER          -> v

\* what the output buffer holds when the callback is entered: not yet written
Stale == -99999

\* How often to push samples to the visualization buffer
VIZ_DECIMATION == 8

\* a frame loop that writes channels 0 and 1 and leaves the others as they were
WriteFrameTwoChannels(data, frame_num, channels, format, e) ==
    [k \in 1..Len(data) |->
        IF (k - 1) \div channels # frame_num THEN data[k]
        ELSE IF channels >= 2
             THEN CASE (k - 1) % channels = 0 -> FromSample(format, e.x)
                    [] (k - 1) % channels = 1 -> FromSample(format, e.y)
                    [] OTHER                  -> data[k]
             ELSE FromSample(format, (e.x + e.y) \div 2)]

\* the body of the frame loop that writes one frame of `channels` samples
WriteFrame(data, frame_num, channels, format, e) ==
    [k \in 1..Len(data) |->
        IF (k - 1) \div channels # frame_num THEN data[k]
        ELSE IF channels >= 2
             THEN CASE (k - 1) % channels = 0 -> FromSample(format, e.x)
                    [] (k - 1) % channels = 1 -> FromSample(format, e.y)
                    [] OTHER                  -> Equilibrium(format)
             ELSE FromSample(format, (e.x + e.y) \div 2)]

\* AudioEngine.status values
Msg(m) == [msg |-> m, shape |-> "", frequency |-> 0, volume |-> 0]

\* format!("Playing: {} at {}Hz, {:.0}% volume", ..)
PlayingMsg(name, frequency, volume) ==
    [msg |-> "Playing", shape |-> name, frequency |-> frequency, volume |-> volume]

----------------------------------------------------------------------------
(* Bounds of the engine model *)

MaxFrames  == 2     \* frames per callback buffer: 1..MaxFrames
MaxTotal   == 2     \* frames rendered in one run: no callback goes beyond this
EngineCap  == 1     \* capacity of the engine's ring buffer

\* the config the UI has set (pub fields: sliders, settings file); at
\* 48000 Hz the quotient 48000 / 7000 is 6, below the minimum table size
EngineConfig == [frequency |-> 7000, volume |-> 800]
EngineCurves      == { Line(-Unit, -Unit, Unit, Unit), Rectangle(Unit, Unit) }

----------------------------------------------------------------------------
(* audio/engine.rs: AudioEngine, the calls of the UI thread.  The UI thread *)
(* runs one call at a time (set_shape, start, stop, toggle take &mut self). *)

UiLocals == [pc |-> "idle", shape |-> NoCurve, s |-> NoStream,
             params |-> EffectParamsDefault, ret |-> ""]

CbLocals == [pc |-> "idle", rate |-> 0, channels |-> 0, format |-> "none", data |-> <<>>,
             path |-> "none", n |-> 0, start_idx |-> 0, start_total |-> 0,
             num_frames |-> 0, chain |-> <<>>, frame_num |-> 0, idx |-> 0,
             fresh_table |-> FALSE, first |-> FALSE]

\* no pure function is being exercised
NoCall == [fn |-> "none"]

NoCallYet == call = NoCall /\ result = NoCall

\* AudioEngine::new(buffer)
EngineNew ==
    /\ is_playing = FALSE
    /\ stream = NoStream
    /\ status = Msg("Ready")
    /\ sample_index = 0
    /\ total_samples = 0
    /\ effect_params = EffectParamsDefault
    /\ shape_lock = [writer |-> FALSE, readers |-> {}]
    /\ effects_lock = FALSE
    /\ ui = UiLocals
    /\ cb = CbLocals
    /\ table_fresh = FALSE
    /\ stream_fresh = FALSE
    /\ frames_done = 0

\* the UI thread is between two calls
UiIdle == ui.pc = "idle" /\ rd_pc[1] = "idle"

\* the UI assigns config.frequency and config.volume
SetConfig(f, v) ==
    /\ UiIdle
    /\ config' = [frequency |-> f, volume |-> v]
    /\ UNCHANGED <<samples, write_pos, samples_written, inner_lock, rd_pc, rd_op,
                 rd_result, last_op, window, stored, sample_rate, samples_per_shape,
                 shape_data, last_shape, is_playing, stream, status, sample_index,
                 total_samples, effect_params, shape_lock, effects_lock, ui, cb,
                 table_fresh, stream_fresh, frames_done, call, result>>

\* set_shape, lines 284-285: the table size
SetShapeCall(shape) ==
    /\ UiIdle
    /\ samples_per_shape' = SamplesPerShape(sample_rate, config.frequency)
    /\ ui' = [ui EXCEPT !.pc = "ss_lock", !.shape = shape]
    /\ UNCHANGED <<samples, write_pos, samples_written, inner_lock, rd_pc, rd_op,
                 rd_result, last_op, window, stored, config, sample_rate, shape_data,
                 last_shape, is_playing, stream, status, sample_index, total_samples,
                 effect_params, shape_lock, effects_lock, cb, table_fresh, stream_fresh,
                 frames_done, call, result>>

\* RwLock::write() returns: no reader and no writer holds the lock
ShapeWriteLockFree == ~shape_lock.writer /\ shape_lock.readers = {}

\* set_shape, line 296: self.shape_data.write() (blocks until the lock is free)
SetShapeLock ==
    /\ ui.pc = "ss_lock"
    /\ ShapeWriteLockFree
    /\ shape_lock' = [shape_lock EXCEPT !.writer = TRUE]
    /\ ui' = [ui EXCEPT !.pc = "ss_samples"]
    /\ UNCHANGED <<samples, write_pos, samples_written, inner_lock, rd_pc, rd_op,
                 rd_result, last_op, window, stored, config, sample_rate,
                 samples_per_shape, shape_data, last_shape, is_playing, stream, status,
                 sample_index, total_samples, effect_params, effects_lock, cb,
                 table_fresh, stream_fresh, frames_done, call, result>>

\* set_shape, lines 288-293 and 297: data.samples = samples
SetShapeSamples ==
    /\ ui.pc = "ss_samples"
    /\ shape_data' = [shape_data EXCEPT
                        !.samples = PreSample(ui.shape, samples_per_shape, config.volume)]
    /\ ui' = [ui EXCEPT !.pc = "ss_name"]
    /\ UNCHANGED <<samples, write_pos, samples_written, inner_lock, rd_pc, rd_op,
                 rd_result, last_op, window, stored, config, sample_rate,
                 samples_per_shape, last_shape, is_playing, stream, status,
                 sample_index, total_samples, effect_params, shape_lock, effects_lock,
                 cb, table_fresh, stream_fresh, frames_done, call, result>>

\* set_shape, line 298: data.name = shape.name().to_string()
SetShapeName ==
    /\ ui.pc = "ss_name"
    /\ shape_data' = [shape_data EXCEPT !.name = ShapeName(ui.shape)]
    /\ ui' = [ui EXCEPT !.pc = "ss_unlock"]
    /\ UNCHANGED <<samples, write_pos, samples_written, inner_lock, rd_pc, rd_op,
                 rd_result, last_op, window, stored, config, sample_rate,
                 samples_per_shape, last_shape, is_playing, stream, status,
                 sample_index, total_samples, effect_params, shape_lock, effects_lock,
                 cb, table_fresh, stream_fresh, frames_done, call, result>>

\* set_shape, line 299: the write guard is dropped, the table is published
SetShapeUnlock ==
    /\ ui.pc = "ss_unlock"
    /\ shape_lock' = [shape_lock EXCEPT !.writer = FALSE]
    /\ table_fresh' = TRUE
    /\ last_shape' = [shape |-> ui.shape, frequency |-> config.frequency,
                      rate |-> sample_rate, volume |-> config.volume]
    /\ ui' = [ui EXCEPT !.pc = "ss_reset"]
    /\ UNCHANGED <<samples, write_pos, samples_written, inner_lock, rd_pc, rd_op,
                 rd_result, last_op, window, stored, config, sample_rate,
                 samples_per_shape, shape_data, is_playing, stream, status,
                 sample_index, total_samples, effect_params, effects_lock, cb,
                 stream_fresh, frames_done, call, result>>

\* a reset that stores 1 instead of 0
SetShapeResetOne ==
    /\ ui.pc = "ss_reset"
    /\ sample_index' = 1
    /\ ui' = UiLocals
    /\ UNCHANGED <<samples, write_pos, samples_written, inner_lock, rd_pc, rd_op,
                 rd_result, last_op, window, stored, config, sample_rate,
                 samples_per_shape, shape_data, last_shape, is_playing, stream, status,
                 total_samples, effect_params, shape_lock, effects_lock, cb,
                 table_fresh, stream_fresh, frames_done, call, result>>

\* set_shape, line 302: self.sample_index.store(0)
SetShapeReset ==
    /\ ui.pc = "ss_reset"
    /\ sample_index' = 0
    /\ ui' = UiLocals
    /\ UNCHANGED <<samples, write_pos, samples_written, inner_lock, rd_pc, rd_op,
                 rd_result, last_op, window, stored, config, sample_rate,
                 samples_per_shape, shape_data, last_shape, is_playing, stream, status,
                 total_samples, effect_params, shape_lock, effects_lock, cb,
                 table_fresh, stream_fresh, frames_done, call, result>>

\* set_effects, line 263: self.effect_params.write()
SetEffectsLock(params) ==
    /\ UiIdle
    /\ ~effects_lock
    /\ effects_lock' = TRUE
    /\ ui' = [ui EXCEPT !.pc = "se_write", !.params = params]
    /\ UNCHANGED <<samples, write_pos, samples_written, inner_lock, rd_pc, rd_op,
                 rd_result, last_op, window, stored, config, sample_rate,
                 samples_per_shape, shape_data, last_shape, is_playing, stream, status,
                 sample_index, total_samples, effect_params, shape_lock, cb,
                 table_fresh, stream_fresh, frames_done, call, result>>

\* set_effects, lines 264-265: *effects = params, guard dropped
SetEffectsWrite ==
    /\ ui.pc = "se_write"
    /\ effect_params' = ui.params
    /\ effects_lock' = FALSE
    /\ ui' = UiLocals
    /\ UNCHANGED <<samples, write_pos, samples_written, inner_lock, rd_pc, rd_op,
                 rd_result, last_op, window, stored, config, sample_rate,
                 samples_per_shape, shape_data, last_shape, is_playing, stream, status,
                 sample_index, total_samples, shape_lock, cb, table_fresh, stream_fresh,
                 frames_done, call, result>>

\* current_shape_name: read lock, clone of the name
CurrentShapeName ==
    /\ UiIdle
    /\ ~shape_lock.writer
    /\ ui' = [ui EXCEPT !.pc = "name_ret", !.ret = shape_data.name]
    /\ UNCHANGED <<samples, write_pos, samples_written, inner_lock, rd_pc, rd_op,
                 rd_result, last_op, window, stored, config, sample_rate,
                 samples_per_shape, shape_data, last_shape, is_playing, stream, status,
                 sample_index, total_samples, effect_params, shape_lock, effects_lock,
                 cb, table_fresh, stream_fresh, frames_done, call, result>>

\* the caller of current_shape_name has used the name
CurrentShapeNameReturn ==
    /\ ui.pc = "name_ret"
    /\ ui' = UiLocals
    /\ UNCHANGED <<samples, write_pos, samples_written, inner_lock, rd_pc, rd_op,
                 rd_result, last_op, window, stored, config, sample_rate,
                 samples_per_shape, shape_data, last_shape, is_playing, stream, status,
                 sample_index, total_samples, effect_params, shape_lock, effects_lock,
                 cb, table_fresh, stream_fresh, frames_done, call, result>>

\* a start() without the early return of lines 309-311
StartBodyNoGuard(o) ==
    IF shape_data.samples = <<>>
    THEN /\ status' = Msg("No shape set - select a shape first")
         /\ ui' = UiLocals
         /\ UNCHANGED <<sample_rate, stream_fresh>>
    ELSE IF o.kind = "no_device"
    THEN /\ status' = Msg("Error: No output device found")
         /\ ui' = UiLocals
         /\ UNCHANGED <<sample_rate, stream_fresh>>
    ELSE IF o.kind = "no_config"
    THEN /\ status' = Msg("Error getting config")
         /\ ui' = UiLocals
         /\ UNCHANGED <<sample_rate, stream_fresh>>
    ELSE /\ sample_rate' = o.cfg.rate
         /\ IF o.cfg.format \notin {"F32", "I16", "U16"}
            THEN /\ status' = Msg("Unsupported sample format")
                 /\ ui' = UiLocals
                 /\ UNCHANGED <<stream_fresh>>
            ELSE IF o.kind = "build_error"
            THEN /\ status' = Msg("Error building stream")
                 /\ ui' = UiLocals
                 /\ UNCHANGED <<stream_fresh>>
            ELSE /\ ui' = [UiLocals EXCEPT !.pc = "st_play", !.s = StreamOf(o.cfg)]
                 /\ stream_fresh' = TRUE
                 /\ UNCHANGED status

\* start(), lines 309-431 and 452-455: up to the stream being built
StartBody(o) ==
    IF stream.some
    THEN /\ ui' = UiLocals
         /\ UNCHANGED <<status, sample_rate, stream_fresh>>
    ELSE IF shape_data.samples = <<>>
    THEN /\ status' = Msg("No shape set - select a shape first")
         /\ ui' = UiLocals
         /\ UNCHANGED <<sample_rate, stream_fresh>>
    ELSE IF o.kind = "no_device"
    THEN /\ status' = Msg("Error: No output device found")
         /\ ui' = UiLocals
         /\ UNCHANGED <<sample_rate, stream_fresh>>
    ELSE IF o.kind = "no_config"
    THEN /\ status' = Msg("Error getting config")
         /\ ui' = UiLocals
         /\ UNCHANGED <<sample_rate, stream_fresh>>
    ELSE /\ sample_rate' = o.cfg.rate
         /\ IF o.cfg.format \notin {"F32", "I16", "U16"}
            THEN /\ status' = Msg("Unsupported sample format")
                 /\ ui' = UiLocals
                 /\ UNCHANGED <<stream_fresh>>
            ELSE IF o.kind = "build_error"
            THEN /\ status' = Msg("Error building stream")
                 /\ ui' = UiLocals
                 /\ UNCHANGED <<stream_fresh>>
            ELSE /\ ui' = [UiLocals EXCEPT !.pc = "st_play", !.s = StreamOf(o.cfg)]
                 /\ stream_fresh' = TRUE
                 /\ UNCHANGED status

\* start()
Start(o) ==
    /\ UiIdle
    /\ StartBody(o)
    /\ UNCHANGED <<samples, write_pos, samples_written, inner_lock, rd_pc, rd_op,
                 rd_result, last_op, window, stored, config, samples_per_shape,
                 shape_data, last_shape, is_playing, stream, sample_index,
                 total_samples, effect_params, shape_lock, effects_lock, cb,
                 table_fresh, frames_done, call, result>>

\* dropping a cpal::Stream returns once its callback is not running
StreamDropped == cb.pc = "idle"

\* a play failure that returns without reporting it
StartPlayFailsSilently(ok) ==
    /\ ui.pc = "st_play"
    /\ IF ok
       THEN /\ ui' = [ui EXCEPT !.pc = "st_flag"]
       ELSE /\ StreamDropped
            /\ ui' = UiLocals
    /\ UNCHANGED <<samples, write_pos, samples_written, inner_lock, rd_pc, rd_op,
                 rd_result, last_op, window, stored, config, sample_rate,
                 samples_per_shape, shape_data, last_shape, is_playing, stream, status,
                 sample_index, total_samples, effect_params, shape_lock, effects_lock,
                 cb, table_fresh, stream_fresh, frames_done, call, result>>

\* start(), lines 435-439: s.play()
StartPlay(ok) ==
    /\ ui.pc = "st_play"
    /\ IF ok
       THEN /\ ui' = [ui EXCEPT !.pc = "st_flag"]
            /\ UNCHANGED status
       ELSE /\ StreamDropped
            /\ status' = Msg("Error starting stream")
            /\ ui' = UiLocals
    /\ UNCHANGED <<samples, write_pos, samples_written, inner_lock, rd_pc, rd_op,
                 rd_result, last_op, window, stored, config, sample_rate,
                 samples_per_shape, shape_data, last_shape, is_playing, stream,
                 sample_index, total_samples, effect_params, shape_lock, effects_lock,
                 cb, table_fresh, stream_fresh, frames_done, call, result>>

\* start(), lines 441-442: is_playing.store(true)
StartFlag ==
    /\ ui.pc = "st_flag"
    /\ is_playing' = TRUE
    /\ ui' = [ui EXCEPT !.pc = "st_store"]
    /\ UNCHANGED <<samples, write_pos, samples_written, inner_lock, rd_pc, rd_op,
                 rd_result, last_op, window, stored, config, sample_rate,
                 samples_per_shape, shape_data, last_shape, stream, status,
                 sample_index, total_samples, effect_params, shape_lock, effects_lock,
                 cb, table_fresh, stream_fresh, frames_done, call, result>>

\* start(), lines 443-450: self.stream = Some(s), status
StartStore ==
    /\ ui.pc = "st_store"
    /\ stream' = ui.s
    /\ status' = PlayingMsg(shape_data.name, config.frequency, config.volume)
    /\ ui' = UiLocals
    /\ UNCHANGED <<samples, write_pos, samples_written, inner_lock, rd_pc, rd_op,
                 rd_result, last_op, window, stored, config, sample_rate,
                 samples_per_shape, shape_data, last_shape, is_playing, sample_index,
                 total_samples, effect_params, shape_lock, effects_lock, cb,
                 table_fresh, stream_fresh, frames_done, call, result>>

\* stop(), line 461: is_playing.store(false)
StopBody ==
    /\ is_playing' = FALSE
    /\ ui' = [ui EXCEPT !.pc = "stop_drop"]

\* stop()
Stop ==
    /\ UiIdle
    /\ StopBody
    /\ UNCHANGED <<samples, write_pos, samples_written, inner_lock, rd_pc, rd_op,
                 rd_result, last_op, window, stored, config, sample_rate,
                 samples_per_shape, shape_data, last_shape, stream, status,
                 sample_index, total_samples, effect_params, shape_lock, effects_lock,
                 cb, table_fresh, stream_fresh, frames_done, call, result>>

\* a stop() that clears the flag and keeps the stream handle
StopKeepsStream ==
    /\ ui.pc = "stop_drop"
    /\ status' = Msg("Stopped")
    /\ ui' = UiLocals
    /\ UNCHANGED <<samples, write_pos, samples_written, inner_lock, rd_pc, rd_op,
                 rd_result, last_op, window, stored, config, sample_rate,
                 samples_per_shape, shape_data, last_shape, is_playing, stream,
                 sample_index, total_samples, effect_params, shape_lock, effects_lock,
                 cb, table_fresh, stream_fresh, frames_done, call, result>>

\* stop(), lines 462-463: self.stream = None, status
StopDrop ==
    /\ ui.pc = "stop_drop"
    /\ stream.some => StreamDropped
    /\ stream' = NoStream
    /\ status' = Msg("Stopped")
    /\ ui' = UiLocals
    /\ UNCHANGED <<samples, write_pos, samples_written, inner_lock, rd_pc, rd_op,
                 rd_result, last_op, window, stored, config, sample_rate,
                 samples_per_shape, shape_data, last_shape, is_playing, sample_index,
                 total_samples, effect_params, shape_lock, effects_lock, cb,
                 table_fresh, stream_fresh, frames_done, call, result>>

\* toggle()
Toggle(o) ==
    /\ UiIdle
    /\ IF is_playing
       THEN /\ StopBody
            /\ UNCHANGED <<status, sample_rate, stream_fresh>>
       ELSE /\ StartBody(o)
            /\ UNCHANGED is_playing
    /\ UNCHANGED <<samples, write_pos, samples_written, inner_lock, rd_pc, rd_op,
                 rd_result, last_op, window, stored, config, samples_per_shape,
                 shape_data, last_shape, stream, sample_index, total_samples,
                 effect_params, shape_lock, effects_lock, cb, table_fresh, frames_done,
                 call, result>>

\* the display: self.buffer.get_samples() on the UI thread (reader 1)
UiGetSamples ==
    /\ ui.pc = "idle"
    /\ RdLock(1, [name |-> "get_samples", count |-> 0])
    /\ UNCHANGED <<shapevars, enginevars, fnvars>>

UiGetSamplesRead == RdRead(1) /\ UNCHANGED <<shapevars, enginevars, fnvars>>

UiGetSamplesReturn == RdUnlock(1) /\ UNCHANGED <<shapevars, enginevars, fnvars>>

----------------------------------------------------------------------------
(* audio/engine.rs: write_audio_samples, the callback of the audio thread *)

\* the stream whose callback the device invokes
RunningStream == IF stream.some THEN stream ELSE ui.s

\* the device invokes the callback with a buffer of `frames` frames
CbBegin(frames) ==
    /\ cb.pc = "idle"
    /\ RunningStream.some
    /\ frames_done + frames <= MaxTotal
    /\ cb' = [CbLocals EXCEPT !.pc = "check_playing",
                              !.rate = RunningStream.rate,
                              !.channels = RunningStream.channels,
                              !.format = RunningStream.format,
                              !.data = [k \in 1..(frames * RunningStream.channels) |-> Stale]]
    /\ UNCHANGED <<samples, write_pos, samples_written, inner_lock, rd_pc, rd_op,
                 rd_result, last_op, window, stored, config, sample_rate,
                 samples_per_shape, shape_data, last_shape, is_playing, stream, status,
                 sample_index, total_samples, effect_params, shape_lock, effects_lock,
                 ui, table_fresh, stream_fresh, frames_done, call, result>>

\* a callback that does not look at the playback flag
CbCheckPlayingIgnored ==
    /\ cb.pc = "check_playing"
    /\ cb' = [cb EXCEPT !.pc = "try_read"]
    /\ UNCHANGED <<samples, write_pos, samples_written, inner_lock, rd_pc, rd_op,
                 rd_result, last_op, window, stored, config, sample_rate,
                 samples_per_shape, shape_data, last_shape, is_playing, stream, status,
                 sample_index, total_samples, effect_params, shape_lock, effects_lock,
                 ui, table_fresh, stream_fresh, frames_done, call, result>>

\* lines 122-128: if !is_playing.load() { silence; return }
CbCheckPlaying ==
    /\ cb.pc = "check_playing"
    /\ cb' = IF ~is_playing
             THEN [cb EXCEPT !.pc = "ret", !.path = "not_playing",
                             !.data = Silence(cb.data, cb.channels, cb.format)]
             ELSE [cb EXCEPT !.pc = "try_read"]
    /\ UNCHANGED <<samples, write_pos, samples_written, inner_lock, rd_pc, rd_op,
                 rd_result, last_op, window, stored, config, sample_rate,
                 samples_per_shape, shape_data, last_shape, is_playing, stream, status,
                 sample_index, total_samples, effect_params, shape_lock, effects_lock,
                 ui, table_fresh, stream_fresh, frames_done, call, result>>

\* a read that is granted although the writer holds the lock
ShapeTryReadAlways == TRUE

\* shape_data.try_read() is Ok: no writer holds the lock
ShapeTryReadOk == ~shape_lock.writer

\* a blocking read: the thread waits while the writer holds the lock
CbReadShapeBlocking ==
    /\ cb.pc = "try_read"
    /\ ~shape_lock.writer
    /\ shape_lock' = [shape_lock EXCEPT !.readers = @ \cup {"audio"}]
    /\ cb' = [cb EXCEPT !.pc = "load_idx", !.n = Len(shape_data.samples),
                        !.fresh_table = table_fresh, !.first = stream_fresh]
    /\ table_fresh' = FALSE
    /\ stream_fresh' = FALSE
    /\ UNCHANGED <<samples, write_pos, samples_written, inner_lock, rd_pc, rd_op,
                 rd_result, last_op, window, stored, config, sample_rate,
                 samples_per_shape, shape_data, last_shape, is_playing, stream, status,
                 sample_index, total_samples, effect_params, effects_lock, ui,
                 frames_done, call, result>>

\* lines 131-150: try_read, the empty check, num_shape_samples
CbTryReadShape ==
    /\ cb.pc = "try_read"
    /\ IF ~ShapeTryReadOk
       THEN /\ cb' = [cb EXCEPT !.pc = "ret", !.path = "no_lock",
                                !.data = Silence(cb.data, cb.channels, cb.format)]
            /\ UNCHANGED <<shape_lock, table_fresh, stream_fresh>>
       ELSE /\ shape_lock' = [shape_lock EXCEPT !.readers = @ \cup {"audio"}]
            /\ IF shape_data.samples = <<>>
               THEN /\ cb' = [cb EXCEPT !.pc = "ret", !.path = "empty",
                                        !.data = Silence(cb.data, cb.channels, cb.format)]
                    /\ UNCHANGED <<table_fresh, stream_fresh>>
               ELSE /\ cb' = [cb EXCEPT !.pc = "load_idx", !.n = Len(shape_data.samples),
                                        !.fresh_table = table_fresh, !.first = stream_fresh]
                    /\ table_fresh' = FALSE
                    /\ stream_fresh' = FALSE
    /\ UNCHANGED <<samples, write_pos, samples_written, inner_lock, rd_pc, rd_op,
                 rd_result, last_op, window, stored, config, sample_rate,
                 samples_per_shape, shape_data, last_shape, is_playing, stream, status,
                 sample_index, total_samples, effect_params, effects_lock, ui,
                 frames_done, call, result>>

\* line 153: start_idx = sample_index.load()
CbLoadIdx ==
    /\ cb.pc = "load_idx"
    /\ cb' = [cb EXCEPT !.pc = "load_total", !.start_idx = sample_index]
    /\ UNCHANGED <<samples, write_pos, samples_written, inner_lock, rd_pc, rd_op,
                 rd_result, last_op, window, stored, config, sample_rate,
                 samples_per_shape, shape_data, last_shape, is_playing, stream, status,
                 sample_index, total_samples, effect_params, shape_lock, effects_lock,
                 ui, table_fresh, stream_fresh, frames_done, call, result>>

\* lines 154-155: start_total = total_samples.load(), num_frames
CbLoadTotal ==
    /\ cb.pc = "load_total"
    /\ cb' = [cb EXCEPT !.pc = "chain", !.start_total = total_samples,
                        !.num_frames = Len(cb.data) \div cb.channels]
    /\ UNCHANGED <<samples, write_pos, samples_written, inner_lock, rd_pc, rd_op,
                 rd_result, last_op, window, stored, config, sample_rate,
                 samples_per_shape, shape_data, last_shape, is_playing, stream, status,
                 sample_index, total_samples, effect_params, shape_lock, effects_lock,
                 ui, table_fresh, stream_fresh, frames_done, call, result>>

\* a callback that answers a locked effect configuration with silence
CbChainOrSilence ==
    /\ cb.pc = "chain"
    /\ cb' = IF effects_lock
             THEN [cb EXCEPT !.pc = "ret", !.path = "no_effects",
                             !.data = Silence(cb.data, cb.channels, cb.format)]
             ELSE [cb EXCEPT !.pc = "frame", !.frame_num = 0,
                             !.chain = BuildChain(effect_params)]
    /\ UNCHANGED <<samples, write_pos, samples_written, inner_lock, rd_pc, rd_op,
                 rd_result, last_op, window, stored, config, sample_rate,
                 samples_per_shape, shape_data, last_shape, is_playing, stream, status,
                 sample_index, total_samples, effect_params, shape_lock, effects_lock,
                 ui, table_fresh, stream_fresh, frames_done, call, result>>

\* lines 158-160: effect_params.try_read().map(build_chain).unwrap_or_default()
CbChain ==
    /\ cb.pc = "chain"
    /\ cb' = [cb EXCEPT !.pc = "frame", !.frame_num = 0,
                        !.chain = IF effects_lock THEN EmptyChain
                                  ELSE BuildChain(effect_params)]
    /\ UNCHANGED <<samples, write_pos, samples_written, inner_lock, rd_pc, rd_op,
                 rd_result, last_op, window, stored, config, sample_rate,
                 samples_per_shape, shape_data, last_shape, is_playing, stream, status,
                 sample_index, total_samples, effect_params, shape_lock, effects_lock,
                 ui, table_fresh, stream_fresh, frames_done, call, result>>

\* lines 163-191: one iteration of the frame loop
CbFrame ==
    /\ cb.pc = "frame"
    /\ LET idx  == (cb.start_idx + cb.frame_num) % cb.n
           xy   == shape_data.samples[idx + 1]
           e    == ChainApply(cb.chain, xy, cb.start_total + cb.frame_num, cb.rate)
           last == cb.frame_num + 1 = cb.num_frames
       IN  /\ cb' = [cb EXCEPT !.data = WriteFrame(cb.data, cb.frame_num, cb.channels,
                                                   cb.format, e),
                               !.idx = idx,
                               !.frame_num = cb.frame_num + 1,
                               !.pc = IF last THEN "store_idx" ELSE "frame"]
           /\ IF (cb.start_idx + cb.frame_num) % VIZ_DECIMATION = 0
              THEN PushEffect(XYSample(e.x, e.y))
              ELSE UNCHANGED <<samples, write_pos, samples_written, window, stored>>
    /\ frames_done' = frames_done + 1
    /\ UNCHANGED <<inner_lock, rd_pc, rd_op, rd_result, last_op, config, sample_rate,
                 samples_per_shape, shape_data, last_shape, is_playing, stream, status,
                 sample_index, total_samples, effect_params, shape_lock, effects_lock,
                 ui, table_fresh, stream_fresh, call, result>>

\* a store of the advanced index without the wrap-around
CbStoreIdxNoWrap ==
    /\ cb.pc = "store_idx"
    /\ sample_index' = cb.start_idx + cb.num_frames
    /\ cb' = [cb EXCEPT !.pc = "add_total"]
    /\ UNCHANGED <<samples, write_pos, samples_written, inner_lock, rd_pc, rd_op,
                 rd_result, last_op, window, stored, config, sample_rate,
                 samples_per_shape, shape_data, last_shape, is_playing, stream, status,
                 total_samples, effect_params, shape_lock, effects_lock, ui,
                 table_fresh, stream_fresh, frames_done, call, result>>

\* lines 194-195: sample_index.store((start_idx + num_frames) % num_shape_samples)
CbStoreIdx ==
    /\ cb.pc = "store_idx"
    /\ sample_index' = (cb.start_idx + cb.num_frames) % cb.n
    /\ cb' = [cb EXCEPT !.pc = "add_total"]
    /\ UNCHANGED <<samples, write_pos, samples_written, inner_lock, rd_pc, rd_op,
                 rd_result, last_op, window, stored, config, sample_rate,
                 samples_per_shape, shape_data, last_shape, is_playing, stream, status,
                 total_samples, effect_params, shape_lock, effects_lock, ui,
                 table_fresh, stream_fresh, frames_done, call, result>>

\* a callback that counts itself, not its frames
CbAddTotalOne ==
    /\ cb.pc = "add_total"
    /\ total_samples' = total_samples + 1
    /\ cb' = [cb EXCEPT !.pc = "ret", !.path = "render"]
    /\ UNCHANGED <<samples, write_pos, samples_written, inner_lock, rd_pc, rd_op,
                 rd_result, last_op, window, stored, config, sample_rate,
                 samples_per_shape, shape_data, last_shape, is_playing, stream, status,
                 sample_index, effect_params, shape_lock, effects_lock, ui, table_fresh,
                 stream_fresh, frames_done, call, result>>

\* line 198: total_samples.fetch_add(num_frames)
CbAddTotal ==
    /\ cb.pc = "add_total"
    /\ total_samples' = total_samples + cb.num_frames
    /\ cb' = [cb EXCEPT !.pc = "ret", !.path = "render"]
    /\ UNCHANGED <<samples, write_pos, samples_written, inner_lock, rd_pc, rd_op,
                 rd_result, last_op, window, stored, config, sample_rate,
                 samples_per_shape, shape_data, last_shape, is_playing, stream, status,
                 sample_index, effect_params, shape_lock, effects_lock, ui, table_fresh,
                 stream_fresh, frames_done, call, result>>

\* a return that rewinds the table index after a buffer of silence
CbReturnRewinds ==
    /\ cb.pc = "ret"
    /\ shape_lock' = [shape_lock EXCEPT !.readers = @ \ {"audio"}]
    /\ sample_index' = IF cb.path \in {"not_playing", "no_lock", "empty"}
                       THEN 0 ELSE sample_index
    /\ cb' = CbLocals
    /\ UNCHANGED <<samples, write_pos, samples_written, inner_lock, rd_pc, rd_op,
                 rd_result, last_op, window, stored, config, sample_rate,
                 samples_per_shape, shape_data, last_shape, is_playing, stream, status,
                 total_samples, effect_params, effects_lock, ui, table_fresh,
                 stream_fresh, frames_done, call, result>>

\* the function returns: shape_guard is dropped, the device takes the buffer
CbReturn ==
    /\ cb.pc = "ret"
    /\ shape_lock' = [shape_lock EXCEPT !.readers = @ \ {"audio"}]
    /\ cb' = CbLocals
    /\ UNCHANGED <<samples, write_pos, samples_written, inner_lock, rd_pc, rd_op,
                 rd_result, last_op, window, stored, config, sample_rate,
                 samples_per_shape, shape_data, last_shape, is_playing, stream, status,
                 sample_index, total_samples, effect_params, effects_lock, ui,
                 table_fresh, stream_fresh, frames_done, call, result>>

----------------------------------------------------------------------------
(* The engine: the UI thread and the audio thread *)

Init ==
    /\ BufferNew(EngineCap) /\ BufHistoryInit
    /\ config = EngineConfig
    /\ sample_rate = 48000
    /\ samples_per_shape = 600
    /\ shape_data = ShapeDataDefault
    /\ last_shape = NoShape
    /\ EngineNew
    /\ NoCallYet

UiNext ==
    \/ \E s \in EngineCurves : SetShapeCall(s)
    \/ SetShapeLock
    \/ SetShapeSamples
    \/ SetShapeName
    \/ SetShapeUnlock
    \/ SetShapeReset
    \/ \E p \in EffectChoices : SetEffectsLock(p)
    \/ SetEffectsWrite
    \/ CurrentShapeName
    \/ CurrentShapeNameReturn
    \/ \E o \in StartOutcomes : Start(o)
    \/ \E ok \in BOOLEAN : StartPlay(ok)
    \/ StartFlag
    \/ StartStore
    \/ Stop
    \/ StopDrop
    \/ \E o \in StartOutcomes : Toggle(o)
    \/ UiGetSamples
    \/ UiGetSamplesRead
    \/ UiGetSamplesReturn

\* the steps of a callback that has been entered
CbStep ==
    \/ CbCheckPlaying
    \/ CbTryReadShape
    \/ CbLoadIdx
    \/ CbLoadTotal
    \/ CbChain
    \/ CbFrame
    \/ CbStoreIdx
    \/ CbAddTotal
    \/ CbReturn

Next ==
    \/ UiNext
    \/ \E frames \in 1..MaxFrames : CbBegin(frames)
    \/ CbStep

Spec == Init /\ [][Next]_vars

\* the audio thread is scheduled: an entered callback keeps taking its steps
FairSpec == Spec /\ WF_vars(CbStep)

----------------------------------------------------------------------------
(* The pre-sampler on its own: set_shape and configuration changes on an *)
(* engine with no stream, at either device rate start() can have adopted  *)

TraceFrequencies == {70, 80, 200, 7000}
Volumes          == {800, Unit}
DeviceRates      == {44100, 48000}

InitShape ==
    /\ BufferNew(1) /\ BufHistoryInit
    /\ config \in [frequency : TraceFrequencies, volume : Volumes]
    /\ sample_rate \in DeviceRates
    /\ samples_per_shape = 600
    /\ shape_data = ShapeDataDefault
    /\ last_shape = NoShape
    /\ EngineNew
    /\ NoCallYet

NextShape ==
    \/ \E s \in Curves : SetShapeCall(s)
    \/ SetShapeLock
    \/ SetShapeSamples
    \/ SetShapeName
    \/ SetShapeUnlock
    \/ SetShapeReset
    \/ \E f \in TraceFrequencies, v \in Volumes : SetConfig(f, v)

SpecShape == InitShape /\ [][NextShape]_vars

----------------------------------------------------------------------------
(* The ring buffer on its own: one producer, NumReaders blocking readers *)

SlicesUpTo(n) == UNION { [1..k -> SampleValues] : k \in 0..n }

InitBuf ==
    /\ \E c \in 1..MaxCap : BufferNew(c)
    /\ BufHistoryInit
    /\ ShapeFieldsNew
    /\ EngineNew
    /\ NoCallYet

NextBuf ==
    /\ \/ \E s \in SampleValues : Push(s)
       \/ \E sl \in SlicesUpTo(MaxSlice) : PushSlice(sl)
       \/ Clear
       \/ \E r \in Readers, op \in ReadOps : RdLock(r, op)
       \/ \E r \in Readers : RdRead(r)
       \/ \E r \in Readers : RdUnlock(r)
    /\ UNCHANGED <<shapevars, enginevars, fnvars>>

SpecBuf == InitBuf /\ [][NextBuf]_vars

----------------------------------------------------------------------------
(* write_audio_samples on its own: the function's arguments are drawn from *)
(* bounded sets (a table or none, the playback flag, the locks as another  *)
(* thread holds them, the index, the device configuration) and only the    *)
(* audio thread and the display's reads of the ring buffer run             *)

RenderConfigs == DeviceConfigs \cup { [rate |-> 48000, channels |-> 2, format |-> "F32"] }

RenderTables ==
    { ShapeDataDefault } \cup
    { [samples |-> PreSample(c, SamplesPerShape(48000, EngineConfig.frequency),
                             EngineConfig.volume),
       name |-> ShapeName(c)] : c \in EngineCurves }

\* the length of the tables of RenderTables that set_shape computed
RenderN == SamplesPerShape(48000, EngineConfig.frequency)

\* the index the callback finds: a small one, the last point of the table,
\* and one beyond the table, left behind by a longer table
RenderIndexes == (0..MaxTotal) \cup {RenderN - 1, RenderN + 1}

InitRender ==
    /\ BufferNew(EngineCap) /\ BufHistoryInit
    /\ config = EngineConfig
    /\ sample_rate = 48000
    /\ samples_per_shape = 600
    /\ shape_data \in RenderTables
    /\ last_shape = NoShape
    /\ is_playing \in BOOLEAN
    /\ stream \in { StreamOf(c) : c \in RenderConfigs }
    /\ status = Msg("Ready")
    /\ sample_index \in RenderIndexes
    /\ total_samples = 0
    /\ effect_params \in EffectChoices
    /\ shape_lock \in { [writer |-> w, readers |-> {}] : w \in BOOLEAN }
    /\ effects_lock \in BOOLEAN
    /\ ui = UiLocals
    /\ cb = CbLocals
    /\ table_fresh = FALSE
    /\ stream_fresh = FALSE
    /\ frames_done = 0
    /\ NoCallYet

NextRender ==
    \/ \E frames \in 1..MaxFrames : CbBegin(frames)
    \/ CbStep
    \/ UiGetSamples
    \/ UiGetSamplesRead
    \/ UiGetSamplesReturn

SpecRender == InitRender /\ [][NextRender]_vars

----------------------------------------------------------------------------
(* An EffectChain on its own: built by add, remove and clear, and applied   *)
(* to a point at a time.  `call` holds the chain, `result` what the last    *)
(* apply was given and what it returned.                                    *)

MaxChain == 3
MaxTime == 1

\* the rate the sample counts of a time are taken at
ChainRate == 48000

\* the effects added: a rotation by a quarter turn plus a quarter turn per
\* sample, a non-uniform scale and a translation, each enabled or disabled
ChainEffects ==
    LET on == { RotateWithSpeed(1, ChainRate), ScaleNew(2 * Unit, Unit),
                TranslateNew(Unit \div 2, 0) }
    IN  on \cup { [e EXCEPT !.enabled = FALSE] : e \in on }

ChainPoints == { XYSample(Unit, 0), XYSample(0 - Unit \div 2, Unit \div 4) }

\* EffectChain::new
ChainNew == [fn |-> "chain", effects |-> <<>>]

InitChain ==
    /\ BufferNew(1) /\ BufHistoryInit
    /\ ShapeFieldsNew
    /\ EngineNew
    /\ call = ChainNew
    /\ result = NoCall

\* EffectChain::add
ChainAdd(e) ==
    /\ Len(call.effects) < MaxChain
    /\ call' = [call EXCEPT !.effects = Append(@, e)]
    /\ result' = NoCall
    /\ UNCHANGED <<samples, write_pos, samples_written, inner_lock, rd_pc, rd_op,
                 rd_result, last_op, window, stored, config, sample_rate,
                 samples_per_shape, shape_data, last_shape, is_playing, stream, status,
                 sample_index, total_samples, effect_params, shape_lock, effects_lock,
                 ui, cb, table_fresh, stream_fresh, frames_done>>

\* the sequence without its i-th element (Vec::remove, 1-based here)
RemoveAt(s, i) == SubSeq(s, 1, i - 1) \o SubSeq(s, i + 1, Len(s))

\* EffectChain::remove(index)
ChainRemove(index) ==
    /\ IF index < Len(call.effects)
       THEN /\ call' = [call EXCEPT !.effects = RemoveAt(@, index + 1)]
            /\ result' = [fn |-> "remove", some |-> TRUE]
       ELSE /\ call' = call
            /\ result' = [fn |-> "remove", some |-> FALSE]
    /\ UNCHANGED <<samples, write_pos, samples_written, inner_lock, rd_pc, rd_op,
                 rd_result, last_op, window, stored, config, sample_rate,
                 samples_per_shape, shape_data, last_shape, is_playing, stream, status,
                 sample_index, total_samples, effect_params, shape_lock, effects_lock,
                 ui, cb, table_fresh, stream_fresh, frames_done>>

\* EffectChain::clear
ChainClear ==
    /\ call' = [call EXCEPT !.effects = <<>>]
    /\ result' = NoCall
    /\ UNCHANGED <<samples, write_pos, samples_written, inner_lock, rd_pc, rd_op,
                 rd_result, last_op, window, stored, config, sample_rate,
                 samples_per_shape, shape_data, last_shape, is_playing, stream, status,
                 sample_index, total_samples, effect_params, shape_lock, effects_lock,
                 ui, cb, table_fresh, stream_fresh, frames_done>>

\* EffectChain::apply(x, y, time) with time = cs / ChainRate
ChainApplyCall(p, cs) ==
    /\ result' = [fn |-> "apply", effects |-> call.effects, p |-> p, cs |-> cs,
                  out |-> ChainApply(call.effects, p, cs, ChainRate)]
    /\ UNCHANGED <<samples, write_pos, samples_written, inner_lock, rd_pc, rd_op,
                 rd_result, last_op, window, stored, config, sample_rate,
                 samples_per_shape, shape_data, last_shape, is_playing, stream, status,
                 sample_index, total_samples, effect_params, shape_lock, effects_lock,
                 ui, cb, table_fresh, stream_fresh, frames_done, call>>

NextChain ==
    \/ \E e \in ChainEffects : ChainAdd(e)
    \/ \E index \in 0..MaxChain : ChainRemove(index)
    \/ ChainClear
    \/ \E p \in ChainPoints, cs \in 0..MaxTime : ChainApplyCall(p, cs)

SpecChain == InitChain /\ [][NextChain]_vars

----------------------------------------------------------------------------
(* shapes/scene.rs: a Scene on its own.  Weights are in tenths (10 is 1.0). *)
(* A time t is the pair (tn, td), the exact fraction tn/td; a boundary      *)
(* keeps its start and end as numerators over the total weight it was       *)
(* computed with, so that weight / total_weight and the comparisons of      *)
(* find_shape_at are exact.  `call` holds the Scene, `result` what the last *)
(* call returned.                                                           *)

MaxShapes == 2
TimeSteps == 6

\* weight: 1.0 in SceneShape::new
WeightOne == 10

\* weight.max(0.1) in SceneShape::set_weight
MinWeight == 1

\* the sub-shapes a scene is composed of
SubShapes == {"A", "B"}

\* the weights handed to add_weighted and set_weight: 1.0, 2.0 and, for
\* set_weight, 0.0 (raised to the minimum)
AddWeights == {WeightOne, 2 * WeightOne}
SetWeights == {0, 2 * WeightOne}

\* SceneShape::new
SceneShapeNew(shape) == [shape |-> shape, weight |-> WeightOne, enabled |-> TRUE]

\* SceneShape::with_weight
SceneShapeWithWeight(shape, weight) == [shape |-> shape, weight |-> weight, enabled |-> TRUE]

\* recompute_boundaries: the total weight of the enabled shapes
RECURSIVE TotalWeight(_)
TotalWeight(shapes) ==
    IF shapes = <<>> THEN 0
    ELSE (IF Head(shapes).enabled THEN Head(shapes).weight ELSE 0) + TotalWeight(Tail(shapes))

\* recompute_boundaries: the loop from shape i (0-based) on
RECURSIVE BoundariesFrom(_, _, _, _)
BoundariesFrom(shapes, i, current_t, total_weight) ==
    IF i >= Len(shapes) THEN <<>>
    ELSE LET shape == shapes[i + 1]
         IN  IF shape.enabled
             THEN <<[start |-> current_t, end |-> current_t + shape.weight,
                     total |-> total_weight, idx |-> i]>>
                  \o BoundariesFrom(shapes, i + 1, current_t + shape.weight, total_weight)
             ELSE BoundariesFrom(shapes, i + 1, current_t, total_weight)

\* Scene::recompute_boundaries
RecomputeBoundaries(shapes) ==
    LET total_weight == TotalWeight(shapes)
    IN  IF total_weight <= 0 THEN <<>> ELSE BoundariesFrom(shapes, 0, 0, total_weight)

\* t >= start && t < end
InBoundary(b, tn, td) == tn * b.total >= b.start * td /\ tn * b.total < b.end * td

\* Scene::find_shape_at(t): Some((idx, local_t)) or None
FindShapeAt(boundaries, tn, td) ==
    LET hits == { k \in 1..Len(boundaries) : InBoundary(boundaries[k], tn, td) }
    IN  IF hits # {}
        THEN LET b == boundaries[CHOOSE k \in hits : \A j \in hits : k <= j]
             IN  [some |-> TRUE, idx |-> b.idx,
                  ln |-> tn * b.total - b.start * td, ld |-> (b.end - b.start) * td]
        ELSE IF boundaries # <<>>
                /\ LET b == boundaries[Len(boundaries)]
                       d == IF tn >= td THEN tn - td ELSE td - tn
                   IN  d * 10000 < td \/ tn * b.total >= b.end * td
        THEN [some |-> TRUE, idx |-> boundaries[Len(boundaries)].idx, ln |-> 999, ld |-> 1000]
        ELSE [some |-> FALSE, idx |-> 0, ln |-> 0, ld |-> 1]

\* <Scene as Shape>::sample(t): the sub-shape it delegates to and the
\* parameter ln/ld it hands it, or the origin
SceneSampleOf(scene, tn, td) ==
    LET f == FindShapeAt(scene.boundaries, tn, td)
    IN  IF f.some
        THEN [fn |-> "sample", tn |-> tn, td |-> td, to |-> "shape", idx |-> f.idx,
              shape |-> scene.shapes[f.idx + 1].shape, ln |-> f.ln, ld |-> f.ld]
        ELSE IF scene.shapes # <<>>
        THEN [fn |-> "sample", tn |-> tn, td |-> td, to |-> "shape", idx |-> 0,
              shape |-> scene.shapes[1].shape, ln |-> tn, ld |-> td]
        ELSE [fn |-> "sample", tn |-> tn, td |-> td, to |-> "origin", idx |-> 0,
              shape |-> "none", ln |-> 0, ld |-> 1]

\* Scene::new
SceneNew == [fn |-> "scene", shapes |-> <<>>, boundaries |-> <<>>]

InitScene ==
    /\ BufferNew(1) /\ BufHistoryInit
    /\ ShapeFieldsNew
    /\ EngineNew
    /\ call = SceneNew
    /\ result = NoCall

\* the scene with its shapes replaced and its boundaries recomputed
WithShapes(shapes) ==
    [fn |-> "scene", shapes |-> shapes, boundaries |-> RecomputeBoundaries(shapes)]

\* Scene::add
SceneAdd(shape) ==
    /\ Len(call.shapes) < MaxShapes
    /\ call' = WithShapes(Append(call.shapes, SceneShapeNew(shape)))
    /\ result' = NoCall
    /\ UNCHANGED <<samples, write_pos, samples_written, inner_lock, rd_pc, rd_op,
                 rd_result, last_op, window, stored, config, sample_rate,
                 samples_per_shape, shape_data, last_shape, is_playing, stream, status,
                 sample_index, total_samples, effect_params, shape_lock, effects_lock,
                 ui, cb, table_fresh, stream_fresh, frames_done>>

\* Scene::add_weighted
SceneAddWeighted(shape, weight) ==
    /\ Len(call.shapes) < MaxShapes
    /\ call' = WithShapes(Append(call.shapes, SceneShapeWithWeight(shape, weight)))
    /\ result' = NoCall
    /\ UNCHANGED <<samples, write_pos, samples_written, inner_lock, rd_pc, rd_op,
                 rd_result, last_op, window, stored, config, sample_rate,
                 samples_per_shape, shape_data, last_shape, is_playing, stream, status,
                 sample_index, total_samples, effect_params, shape_lock, effects_lock,
                 ui, cb, table_fresh, stream_fresh, frames_done>>

\* Scene::remove(index)
SceneRemove(index) ==
    /\ IF index < Len(call.shapes)
       THEN /\ call' = WithShapes(RemoveAt(call.shapes, index + 1))
            /\ result' = [fn |-> "remove", some |-> TRUE]
       ELSE /\ call' = call
            /\ result' = [fn |-> "remove", some |-> FALSE]
    /\ UNCHANGED <<samples, write_pos, samples_written, inner_lock, rd_pc, rd_op,
                 rd_result, last_op, window, stored, config, sample_rate,
                 samples_per_shape, shape_data, last_shape, is_playing, stream, status,
                 sample_index, total_samples, effect_params, shape_lock, effects_lock,
                 ui, cb, table_fresh, stream_fresh, frames_done>>

\* Vec::swap(i, j), 0-based
Swap(s, i, j) == [s EXCEPT ![i + 1] = s[j + 1], ![j + 1] = s[i + 1]]

\* Scene::move_up(index)
SceneMoveUp(index) ==
    /\ call' = IF index > 0 /\ index < Len(call.shapes)
               THEN WithShapes(Swap(call.shapes, index, index - 1))
               ELSE call
    /\ result' = NoCall
    /\ UNCHANGED <<samples, write_pos, samples_written, inner_lock, rd_pc, rd_op,
                 rd_result, last_op, window, stored, config, sample_rate,
                 samples_per_shape, shape_data, last_shape, is_playing, stream, status,
                 sample_index, total_samples, effect_params, shape_lock, effects_lock,
                 ui, cb, table_fresh, stream_fresh, frames_done>>

\* Scene::move_down(index)
SceneMoveDown(index) ==
    /\ call' = IF index + 1 < Len(call.shapes)
               THEN WithShapes(Swap(call.shapes, index, index + 1))
               ELSE call
    /\ result' = NoCall
    /\ UNCHANGED <<samples, write_pos, samples_written, inner_lock, rd_pc, rd_op,
                 rd_result, last_op, window, stored, config, sample_rate,
                 samples_per_shape, shape_data, last_shape, is_playing, stream, status,
                 sample_index, total_samples, effect_params, shape_lock, effects_lock,
                 ui, cb, table_fresh, stream_fresh, frames_done>>

\* Scene::set_weight(index, weight)
SceneSetWeight(index, weight) ==
    /\ call' = IF index < Len(call.shapes)
               THEN WithShapes([call.shapes EXCEPT ![index + 1].weight = Max(weight, MinWeight)])
               ELSE call
    /\ result' = NoCall
    /\ UNCHANGED <<samples, write_pos, samples_written, inner_lock, rd_pc, rd_op,
                 rd_result, last_op, window, stored, config, sample_rate,
                 samples_per_shape, shape_data, last_shape, is_playing, stream, status,
                 sample_index, total_samples, effect_params, shape_lock, effects_lock,
                 ui, cb, table_fresh, stream_fresh, frames_done>>

\* scene.get_mut(index) and SceneShape::set_enabled on what it returns: the
\* flag is set, the boundaries are left as they are
SceneSetEnabled(index, enabled) ==
    /\ call' = IF index < Len(call.shapes)
               THEN [call EXCEPT !.shapes[index + 1].enabled = enabled]
               ELSE call
    /\ result' = NoCall
    /\ UNCHANGED <<samples, write_pos, samples_written, inner_lock, rd_pc, rd_op,
                 rd_result, last_op, window, stored, config, sample_rate,
                 samples_per_shape, shape_data, last_shape, is_playing, stream, status,
                 sample_index, total_samples, effect_params, shape_lock, effects_lock,
                 ui, cb, table_fresh, stream_fresh, frames_done>>

\* scene.sample(t) with t = tn / TimeSteps
SceneSample(tn) ==
    /\ result' = SceneSampleOf(call, tn, TimeSteps)
    /\ UNCHANGED <<samples, write_pos, samples_written, inner_lock, rd_pc, rd_op,
                 rd_result, last_op, window, stored, config, sample_rate,
                 samples_per_shape, shape_data, last_shape, is_playing, stream, status,
                 sample_index, total_samples, effect_params, shape_lock, effects_lock,
                 ui, cb, table_fresh, stream_fresh, frames_done, call>>

NextScene ==
    \/ \E s \in SubShapes : SceneAdd(s)
    \/ \E s \in SubShapes, w \in AddWeights : SceneAddWeighted(s, w)
    \/ \E i \in 0..MaxShapes : SceneRemove(i)
    \/ \E i \in 0..MaxShapes : SceneMoveUp(i)
    \/ \E i \in 0..MaxShapes : SceneMoveDown(i)
    \/ \E i \in 0..MaxShapes, w \in SetWeights : SceneSetWeight(i, w)
    \/ \E i \in 0..MaxShapes, e \in BOOLEAN : SceneSetEnabled(i, e)
    \/ \E tn \in 0..TimeSteps : SceneSample(tn)

SpecScene == InitScene /\ [][NextScene]_vars

----------------------------------------------------------------------------
(* effects/lfo.rs: an Lfo on its own.  `call` holds the Lfo, `result` the   *)
(* time of the last sample (in quarter seconds) and the value it returned.  *)

MaxLfoTime == 3

Waveforms == {"Sine", "Triangle", "Square", "Sawtooth", "ReverseSawtooth"}

\* oscillation frequencies in Hz, the degenerate 0 among them
LfoFrequencies == {0, 1}

\* output ranges (min, max), one of them a single value
LfoRanges == { <<800, 1200>>, <<500, 500>> }

\* phase offsets: none, a quarter and a half period
PhaseOffsets == {0, Unit \div 4, Unit \div 2}

InitLfo ==
    /\ BufferNew(1) /\ BufHistoryInit
    /\ ShapeFieldsNew
    /\ EngineNew
    /\ \E f \in LfoFrequencies : call = LfoNew(f)
    /\ result = NoCall

\* Lfo::with_range(frequency, min, max)
LfoWithRangeCall(f, r) ==
    /\ call' = LfoWithRange(f, r[1], r[2])
    /\ result' = NoCall
    /\ UNCHANGED <<samples, write_pos, samples_written, inner_lock, rd_pc, rd_op,
                 rd_result, last_op, window, stored, config, sample_rate,
                 samples_per_shape, shape_data, last_shape, is_playing, stream, status,
                 sample_index, total_samples, effect_params, shape_lock, effects_lock,
                 ui, cb, table_fresh, stream_fresh, frames_done>>

\* Lfo::waveform(w)
LfoSetWaveform(w) ==
    /\ call' = [call EXCEPT !.waveform = w]
    /\ result' = NoCall
    /\ UNCHANGED <<samples, write_pos, samples_written, inner_lock, rd_pc, rd_op,
                 rd_result, last_op, window, stored, config, sample_rate,
                 samples_per_shape, shape_data, last_shape, is_playing, stream, status,
                 sample_index, total_samples, effect_params, shape_lock, effects_lock,
                 ui, cb, table_fresh, stream_fresh, frames_done>>

\* Lfo::phase(offset)
LfoSetPhase(offset) ==
    /\ call' = [call EXCEPT !.phase_offset = offset]
    /\ result' = NoCall
    /\ UNCHANGED <<samples, write_pos, samples_written, inner_lock, rd_pc, rd_op,
                 rd_result, last_op, window, stored, config, sample_rate,
                 samples_per_shape, shape_data, last_shape, is_playing, stream, status,
                 sample_index, total_samples, effect_params, shape_lock, effects_lock,
                 ui, cb, table_fresh, stream_fresh, frames_done>>

\* lfo.enabled = e (a public field)
LfoSetEnabled(e) ==
    /\ call' = [call EXCEPT !.enabled = e]
    /\ result' = NoCall
    /\ UNCHANGED <<samples, write_pos, samples_written, inner_lock, rd_pc, rd_op,
                 rd_result, last_op, window, stored, config, sample_rate,
                 samples_per_shape, shape_data, last_shape, is_playing, stream, status,
                 sample_index, total_samples, effect_params, shape_lock, effects_lock,
                 ui, cb, table_fresh, stream_fresh, frames_done>>

\* lfo.sample(time) with time = cs / 4
LfoSampleCall(cs) ==
    /\ result' = [fn |-> "lfo_sample", cs |-> cs, out |-> LfoSample(call, cs, 4)]
    /\ UNCHANGED <<samples, write_pos, samples_written, inner_lock, rd_pc, rd_op,
                 rd_result, last_op, window, stored, config, sample_rate,
                 samples_per_shape, shape_data, last_shape, is_playing, stream, status,
                 sample_index, total_samples, effect_params, shape_lock, effects_lock,
                 ui, cb, table_fresh, stream_fresh, frames_done, call>>

NextLfo ==
    \/ \E f \in LfoFrequencies, r \in LfoRanges : LfoWithRangeCall(f, r)
    \/ \E w \in Waveforms : LfoSetWaveform(w)
    \/ \E o \in PhaseOffsets : LfoSetPhase(o)
    \/ \E e \in BOOLEAN : LfoSetEnabled(e)
    \/ \E cs \in 0..MaxLfoTime : LfoSampleCall(cs)

SpecLfo == InitLfo /\ [][NextLfo]_vars

----------------------------------------------------------------------------
(* The frame loop near the end of a table whose length is not a multiple of *)
(* VIZ_DECIMATION: the stream is playing, nothing else touches the engine   *)
(* or the ring buffer, so no push is dropped.                               *)

\* a trace frequency for which 48000 / frequency is 17
DecimConfig == [frequency |-> 2800, volume |-> 800]

DecimN == SamplesPerShape(48000, DecimConfig.frequency)

\* the table set_shape publishes for a line at that frequency
DecimTable ==
    [samples |-> PreSample(Line(0 - Unit, 0 - Unit, Unit, Unit), DecimN, DecimConfig.volume),
     name |-> ShapeName(Line(0 - Unit, 0 - Unit, Unit, Unit))]

\* the stream has rendered this many frames of the table since set_shape
DecimIndexes == {0, DecimN - 2, DecimN - 1}

InitDecim ==
    /\ BufferNew(EngineCap) /\ BufHistoryInit
    /\ config = DecimConfig
    /\ sample_rate = 48000
    /\ samples_per_shape = DecimN
    /\ shape_data = DecimTable
    /\ last_shape = NoShape
    /\ is_playing = TRUE
    /\ stream \in { StreamOf(c) : c \in DeviceConfigs }
    /\ status = Msg("Ready")
    /\ sample_index \in DecimIndexes
    /\ total_samples = sample_index
    /\ effect_params \in EffectChoices
    /\ shape_lock = [writer |-> FALSE, readers |-> {}]
    /\ effects_lock = FALSE
    /\ ui = UiLocals
    /\ cb = CbLocals
    /\ table_fresh = FALSE
    /\ stream_fresh = FALSE
    /\ frames_done = 0
    /\ NoCallYet

NextDecim ==
    \/ \E frames \in 1..MaxFrames : CbBegin(frames)
    \/ CbStep

SpecDecim == InitDecim /\ [][NextDecim]_vars

----------------------------------------------------------------------------
(* The ring buffer with slices whose elements are told apart by position:   *)
(* the slice of length k holds the values 1, 2, .., MaxVal, 1, 2, ..        *)

PatternSlices ==
    { [i \in 1..k |-> XYSample(((i - 1) % MaxVal) + 1, ((i - 1) % MaxVal) + 1)] :
        k \in 0..MaxSlice }

NextSlice ==
    /\ \/ \E s \in SampleValues : Push(s)
       \/ \E sl \in PatternSlices : PushSlice(sl)
       \/ Clear
       \/ \E r \in Readers, op \in ReadOps : RdLock(r, op)
       \/ \E r \in Readers : RdRead(r)
       \/ \E r \in Readers : RdUnlock(r)
    /\ UNCHANGED <<shapevars, enginevars, fnvars>>

SpecSlice == InitBuf /\ [][NextSlice]_vars

----------------------------------------------------------------------------
(* The engine on devices of two rates: set_shape, start and stop on the UI *)
(* thread, the callback on the audio thread.  The trace frequency is one   *)
(* at which the two rates give tables of different lengths (12 and 11).    *)

RateConfig == [frequency |-> 4000, volume |-> 800]

\* default_output_config() of a 44.1 kHz and of a 48 kHz stereo f32 device
RateDevices ==
    { [rate |-> r, channels |-> 2, format |-> "F32"] : r \in DeviceRates }

RateOutcomes == { [kind |-> "ok", cfg |-> c] : c \in RateDevices }

InitRate ==
    /\ BufferNew(EngineCap) /\ BufHistoryInit
    /\ config = RateConfig
    /\ sample_rate = 48000
    /\ samples_per_shape = 600
    /\ shape_data = ShapeDataDefault
    /\ last_shape = NoShape
    /\ EngineNew
    /\ NoCallYet

NextRate ==
    \/ \E s \in EngineCurves : SetShapeCall(s)
    \/ SetShapeLock
    \/ SetShapeSamples
    \/ SetShapeName
    \/ SetShapeUnlock
    \/ SetShapeReset
    \/ \E o \in RateOutcomes : Start(o)
    \/ \E ok \in BOOLEAN : StartPlay(ok)
    \/ StartFlag
    \/ StartStore
    \/ Stop
    \/ StopDrop
    \/ \E frames \in 1..MaxFrames : CbBegin(frames)
    \/ CbStep

SpecRate == InitRate /\ [][NextRate]_vars

----------------------------------------------------------------------------
(* midi.rs: SharedCcValues for one CC number, the MIDI callback thread     *)
(* calling set and the UI thread calling poll.  Every access is            *)
(* Ordering::Relaxed: the two stores of a set go to different atomics and  *)
(* nothing orders them for the other thread, so each becomes visible to    *)
(* the UI thread at a moment of its own; stores to the same atomic become  *)
(* visible in the order they were made.  `call` holds the two atomics as   *)
(* the UI thread sees them, the stores still on their way, the position of *)
(* poll, and the history of the values set and of the last Some returned;  *)
(* `result` is what the last poll returned.                                *)

MaxSets == 2
MaxCcValue == 2

\* the values the controller sends (0 is what SharedCcValues::new stores)
CcValues == 1..MaxCcValue

\* no poll has returned Some yet
NoneYet == [some |-> FALSE, value |-> 0]

\* SharedCcValues::new, for the CC number considered
SharedCcValuesNew ==
    [fn |-> "cc", values |-> 0, changed |-> 0, pending |-> <<>>,
     pc |-> "idle", sets |-> <<>>, reported |-> NoneYet]

InitCc ==
    /\ BufferNew(1) /\ BufHistoryInit
    /\ ShapeFieldsNew
    /\ EngineNew
    /\ call = SharedCcValuesNew
    /\ result = NoCall

\* SharedCcValues::set(cc, value) on the MIDI callback thread: two stores
CcSet(value) ==
    /\ Len(call.sets) < MaxSets
    /\ call' = [call EXCEPT !.pending = @ \o << [loc |-> "values", val |-> value],
                                               [loc |-> "changed", val |-> 1] >>,
                            !.sets = Append(@, value)]
    /\ UNCHANGED <<samples, write_pos, samples_written, inner_lock, rd_pc, rd_op,
                 rd_result, last_op, window, stored, config, sample_rate,
                 samples_per_shape, shape_data, last_shape, is_playing, stream, status,
                 sample_index, total_samples, effect_params, shape_lock, effects_lock,
                 ui, cb, table_fresh, stream_fresh, frames_done, result>>

\* a store may reach the UI thread once every earlier store to the same
\* atomic has
InCoherenceOrder(pending, i) ==
    \A j \in 1..(i - 1) : pending[j].loc # pending[i].loc

\* the i-th store on its way becomes visible to the UI thread
CcStoreVisible(i) ==
    /\ i \in 1..Len(call.pending)
    /\ InCoherenceOrder(call.pending, i)
    /\ call' = [call EXCEPT ![call.pending[i].loc] = call.pending[i].val,
                            !.pending = RemoveAt(@, i)]
    /\ UNCHANGED <<samples, write_pos, samples_written, inner_lock, rd_pc, rd_op,
                 rd_result, last_op, window, stored, config, sample_rate,
                 samples_per_shape, shape_data, last_shape, is_playing, stream, status,
                 sample_index, total_samples, effect_params, shape_lock, effects_lock,
                 ui, cb, table_fresh, stream_fresh, frames_done, result>>

\* SharedCcValues::poll(cc), line 113: changed.swap(0) != 0
CcPollSwap ==
    /\ call.pc = "idle"
    /\ IF call.changed # 0
       THEN /\ call' = [call EXCEPT !.changed = 0, !.pc = "load"]
            /\ UNCHANGED result
       ELSE /\ call' = [call EXCEPT !.changed = 0]
            /\ result' = [fn |-> "poll", some |-> FALSE, value |-> 0]
    /\ UNCHANGED <<samples, write_pos, samples_written, inner_lock, rd_pc, rd_op,
                 rd_result, last_op, window, stored, config, sample_rate,
                 samples_per_shape, shape_data, last_shape, is_playing, stream, status,
                 sample_index, total_samples, effect_params, shape_lock, effects_lock,
                 ui, cb, table_fresh, stream_fresh, frames_done>>

\* SharedCcValues::poll(cc), line 114: Some(values.load())
CcPollLoad ==
    /\ call.pc = "load"
    /\ call' = [call EXCEPT !.pc = "idle",
                            !.reported = [some |-> TRUE, value |-> call.values]]
    /\ result' = [fn |-> "poll", some |-> TRUE, value |-> call.values]
    /\ UNCHANGED <<samples, write_pos, samples_written, inner_lock, rd_pc, rd_op,
                 rd_result, last_op, window, stored, config, sample_rate,
                 samples_per_shape, shape_data, last_shape, is_playing, stream, status,
                 sample_index, total_samples, effect_params, shape_lock, effects_lock,
                 ui, cb, table_fresh, stream_fresh, frames_done>>

NextCc ==
    \/ \E value \in CcValues : CcSet(value)
    \/ \E i \in 1..(2 * MaxSets) : CcStoreVisible(i)
    \/ CcPollSwap
    \/ CcPollLoad

SpecCc == InitCc /\ [][NextCc]_vars

----------------------------------------------------------------------------
(* midi.rs: a MidiController on its own, driven by the calls of the UI     *)
(* thread, with controller messages arriving while it is connected.  A CC  *)
(* message is taken as arriving in one step here.  `call` holds the        *)
(* controller; each mapping carries the number `id` it was added as, and   *)
(* `target` and `learned` record the mapping start_learn was called for    *)
(* and the mapping the last learn assigned a CC to (0: none).  `result` is *)
(* what the last poll returned.                                            *)

MaxMappings == 3
MaxAdds == 3
MaxCc == 1

\* the CC numbers considered (of 0..127)
CcNumbers == 0..MaxCc

MidiParams == {"Frequency", "Volume"}

\* the values the controller sends: the top of the range 0..127
ReceivedValues == {127}

\* MidiParam::range, in thousandths
ParamRange(param) ==
    IF param = "Frequency" THEN [min |-> 20 * Unit, max |-> 200 * Unit]
    ELSE [min |-> 0, max |-> Unit]

\* MidiParam::map_value: min + (cc_value / 127) * (max - min)
MapValue(param, cc_value) ==
    LET r == ParamRange(param)
    IN  r.min + (cc_value * (r.max - r.min)) \div 127

\* learning: None
LearningNone == [some |-> FALSE, idx |-> 0]

\* MidiController::new (the ports are left out)
MidiControllerNew ==
    [fn |-> "midi",
     mappings |-> <<>>,
     learning |-> LearningNone,
     is_connected |-> FALSE,
     status |-> "Disconnected",
     values |-> [cc \in CcNumbers |-> 0],
     changed |-> [cc \in CcNumbers |-> 0],
     added |-> 0, target |-> 0, learned |-> 0]

InitMidi ==
    /\ BufferNew(1) /\ BufHistoryInit
    /\ ShapeFieldsNew
    /\ EngineNew
    /\ call = MidiControllerNew
    /\ result = NoCall

\* connect(): what MidiInput::new, ports.get and midi_in.connect answer
ConnectOutcomes == {"ok", "init_error", "no_port", "connect_error"}

\* MidiController::connect
MidiConnect(o) ==
    /\ IF call.is_connected
       THEN call' = call
       ELSE IF o = "init_error"
       THEN call' = [call EXCEPT !.status = "MIDI init error"]
       ELSE IF o = "no_port"
       THEN call' = [call EXCEPT !.status = "Port not found"]
       ELSE IF o = "connect_error"
       THEN call' = [call EXCEPT !.status = "Connect error"]
       ELSE call' = [call EXCEPT !.is_connected = TRUE, !.status = "Connected"]
    /\ result' = NoCall
    /\ UNCHANGED <<samples, write_pos, samples_written, inner_lock, rd_pc, rd_op,
                 rd_result, last_op, window, stored, config, sample_rate,
                 samples_per_shape, shape_data, last_shape, is_playing, stream, status,
                 sample_index, total_samples, effect_params, shape_lock, effects_lock,
                 ui, cb, table_fresh, stream_fresh, frames_done>>

\* MidiController::disconnect
MidiDisconnect ==
    /\ call' = [call EXCEPT !.is_connected = FALSE,
                            !.learning = LearningNone,
                            !.status = "Disconnected"]
    /\ result' = NoCall
    /\ UNCHANGED <<samples, write_pos, samples_written, inner_lock, rd_pc, rd_op,
                 rd_result, last_op, window, stored, config, sample_rate,
                 samples_per_shape, shape_data, last_shape, is_playing, stream, status,
                 sample_index, total_samples, effect_params, shape_lock, effects_lock,
                 ui, cb, table_fresh, stream_fresh, frames_done>>

\* the callback of connect() on a CC message: cc_values.set(cc, value)
MidiReceive(cc, value) ==
    /\ call.is_connected
    /\ call' = [call EXCEPT !.values[cc] = value, !.changed[cc] = 1]
    /\ UNCHANGED <<samples, write_pos, samples_written, inner_lock, rd_pc, rd_op,
                 rd_result, last_op, window, stored, config, sample_rate,
                 samples_per_shape, shape_data, last_shape, is_playing, stream, status,
                 sample_index, total_samples, effect_params, shape_lock, effects_lock,
                 ui, cb, table_fresh, stream_fresh, frames_done, result>>

\* MidiController::add_mapping
AddMapping(cc, param) ==
    /\ Len(call.mappings) < MaxMappings
    /\ call.added < MaxAdds
    /\ call' = [call EXCEPT !.mappings = Append(@, [cc |-> cc, param |-> param,
                                                     id |-> call.added + 1]),
                            !.added = @ + 1]
    /\ result' = NoCall
    /\ UNCHANGED <<samples, write_pos, samples_written, inner_lock, rd_pc, rd_op,
                 rd_result, last_op, window, stored, config, sample_rate,
                 samples_per_shape, shape_data, last_shape, is_playing, stream, status,
                 sample_index, total_samples, effect_params, shape_lock, effects_lock,
                 ui, cb, table_fresh, stream_fresh, frames_done>>

\* MidiController::remove_mapping
RemoveMapping(index) ==
    /\ IF index < Len(call.mappings)
       THEN call' = [call EXCEPT !.mappings = RemoveAt(@, index + 1),
                                 !.learning = IF @ = [some |-> TRUE, idx |-> index]
                                              THEN LearningNone ELSE @]
       ELSE call' = call
    /\ result' = NoCall
    /\ UNCHANGED <<samples, write_pos, samples_written, inner_lock, rd_pc, rd_op,
                 rd_result, last_op, window, stored, config, sample_rate,
                 samples_per_shape, shape_data, last_shape, is_playing, stream, status,
                 sample_index, total_samples, effect_params, shape_lock, effects_lock,
                 ui, cb, table_fresh, stream_fresh, frames_done>>

\* MidiController::start_learn
StartLearn(mapping_index) ==
    /\ IF mapping_index < Len(call.mappings)
       THEN call' = [call EXCEPT !.learning = [some |-> TRUE, idx |-> mapping_index],
                                 !.target = call.mappings[mapping_index + 1].id,
                                 !.learned = 0]
       ELSE call' = call
    /\ result' = NoCall
    /\ UNCHANGED <<samples, write_pos, samples_written, inner_lock, rd_pc, rd_op,
                 rd_result, last_op, window, stored, config, sample_rate,
                 samples_per_shape, shape_data, last_shape, is_playing, stream, status,
                 sample_index, total_samples, effect_params, shape_lock, effects_lock,
                 ui, cb, table_fresh, stream_fresh, frames_done>>

\* MidiController::cancel_learn
CancelLearn ==
    /\ call' = [call EXCEPT !.learning = LearningNone]
    /\ result' = NoCall
    /\ UNCHANGED <<samples, write_pos, samples_written, inner_lock, rd_pc, rd_op,
                 rd_result, last_op, window, stored, config, sample_rate,
                 samples_per_shape, shape_data, last_shape, is_playing, stream, status,
                 sample_index, total_samples, effect_params, shape_lock, effects_lock,
                 ui, cb, table_fresh, stream_fresh, frames_done>>

\* the CC numbers whose flag is raised
ChangedCcs(changed) == { cc \in CcNumbers : changed[cc] # 0 }

\* poll in learn mode, lines 266-278: the first CC found changed is consumed
\* and assigned to mappings[mapping_idx] if there is one; learning ends
PollLearn(c) ==
    IF ChangedCcs(c.changed) = {}
    THEN c
    ELSE LET cc == CHOOSE m \in ChangedCcs(c.changed) :
                       \A n \in ChangedCcs(c.changed) : m <= n
             idx == c.learning.idx
             hit == idx < Len(c.mappings)
         IN  [c EXCEPT !.changed[cc] = 0,
                       !.mappings = IF hit THEN [@ EXCEPT ![idx + 1].cc = cc] ELSE @,
                       !.learning = LearningNone,
                       !.learned = IF hit THEN c.mappings[idx + 1].id ELSE 0]

\* poll in normal mode, lines 281-286: each mapping in turn polls its CC
RECURSIVE PollMappings(_, _, _, _)
PollMappings(ms, changed, values, updates) ==
    IF ms = <<>>
    THEN [changed |-> changed, updates |-> updates]
    ELSE LET m == Head(ms)
         IN  IF changed[m.cc] # 0
             THEN PollMappings(Tail(ms), [changed EXCEPT ![m.cc] = 0], values,
                               Append(updates, <<m.param, MapValue(m.param, values[m.cc])>>))
             ELSE PollMappings(Tail(ms), changed, values, updates)

\* MidiController::poll
MidiPoll ==
    /\ IF call.learning.some
       THEN /\ call' = PollLearn(call)
            /\ result' = [fn |-> "poll", updates |-> <<>>]
       ELSE LET r == PollMappings(call.mappings, call.changed, call.values, <<>>)
            IN  /\ call' = [call EXCEPT !.changed = r.changed]
                /\ result' = [fn |-> "poll", updates |-> r.updates]
    /\ UNCHANGED <<samples, write_pos, samples_written, inner_lock, rd_pc, rd_op,
                 rd_result, last_op, window, stored, config, sample_rate,
                 samples_per_shape, shape_data, last_shape, is_playing, stream, status,
                 sample_index, total_samples, effect_params, shape_lock, effects_lock,
                 ui, cb, table_fresh, stream_fresh, frames_done>>

NextMidi ==
    \/ \E o \in ConnectOutcomes : MidiConnect(o)
    \/ MidiDisconnect
    \/ \E cc \in CcNumbers, value \in ReceivedValues : MidiReceive(cc, value)
    \/ \E cc \in CcNumbers, param \in MidiParams : AddMapping(cc, param)
    \/ \E index \in 0..MaxMappings : RemoveMapping(index)
    \/ \E mapping_index \in 0..MaxMappings : StartLearn(mapping_index)
    \/ CancelLearn
    \/ MidiPoll

SpecMidi == InitMidi /\ [][NextMidi]_vars

----------------------------------------------------------------------------
(* Properties of the ring buffer (checked under SpecBuf) *)

\* the last n entries of a sequence
LastN(s, n) == SubSeq(s, Len(s) - n + 1, Len(s))

\* C5: ring-buffer round trip.  A get_recent_samples(M) that follows M <= C
\* successful stores (with no clear in between) returns exactly those M
\* samples, oldest first, from every reachable buffer state; and
\* get_recent_samples(n) with n > C returns C samples.
C5_RoundTrip ==
    \A r \in Readers :
        (rd_pc[r] = "read" /\ rd_op[r].name = "get_recent_samples") =>
            LET n == rd_op[r].count
            IN  /\ (n <= Capacity /\ n <= stored) => rd_result[r] = LastN(window, n)
                /\ n > Capacity => Len(rd_result[r]) = Capacity

\* C5 witness: after a wrap-around, two different samples read back in push order
C5_Witness ==
    \E r \in Readers :
        /\ rd_pc[r] = "read" /\ rd_op[r].name = "get_recent_samples"
        /\ rd_op[r].count = 2 /\ Capacity = 2 /\ stored > Capacity
        /\ write_pos = 1
        /\ rd_result[r] = <<XYSample(1, 1), XYSample(2, 2)>>

\* C6: ring-buffer wrap law.  get_samples() returns exactly C entries, entry i
\* being slot (write cursor + i) mod C; they are the last C values of the
\* stream "C defaults, then every stored sample", hence after C+k stores the
\* last C samples stored, oldest first.
C6_WrapLaw ==
    \A r \in Readers :
        (rd_pc[r] = "read" /\ rd_op[r].name = "get_samples") =>
            /\ Len(rd_result[r]) = Capacity
            /\ \A i \in 0..(Capacity - 1) :
                   rd_result[r][i + 1] = samples[((write_pos + i) % Capacity) + 1]
            /\ rd_result[r] = window

\* C6 witness: C+1 samples stored, the cursor is mid-buffer, the oldest comes first
C6_Witness ==
    \E r \in Readers :
        /\ rd_pc[r] = "read" /\ rd_op[r].name = "get_samples"
        /\ Capacity = 2 /\ stored = Capacity + 1 /\ write_pos = 1
        /\ rd_result[r] = <<XYSample(1, 1), XYSample(2, 2)>>
        /\ samples[1] = XYSample(2, 2) /\ samples[2] = XYSample(1, 1)

\* C7: push under contention.  With the mutex held by another thread push
\* returns false in the same step and leaves slots, cursor and
\* samples_written unchanged; with the mutex free it stores the sample at the
\* cursor, advances the cursor by one mod C, adds one to samples_written and
\* returns true.
C7_PushContract ==
    [][\A s \in SampleValues :
          Push(s) =>
            IF inner_lock # 0
            THEN /\ last_op'.ret = FALSE
                 /\ UNCHANGED <<samples, write_pos, samples_written, inner_lock>>
            ELSE /\ last_op'.ret = TRUE
                 /\ samples' = [samples EXCEPT ![write_pos + 1] = s]
                 /\ write_pos' = (write_pos + 1) % Capacity
                 /\ samples_written' = samples_written + 1
                 /\ inner_lock' = 0]_vars

\* C7 witness: a push was dropped while a reader held the mutex, after earlier stores
C7_Witness ==
    /\ last_op = [op |-> "push", ret |-> FALSE]
    /\ inner_lock # 0
    /\ samples_written > 0

----------------------------------------------------------------------------
(* Properties of the pre-sampler (checked under SpecShape) *)

\* a/b rounded to the nearest integer
RoundDiv(a, b) == (2 * a + b) \div (2 * b)

\* C10 as stated: once set_shape has returned, the published table has max(10, round(sampleRate /
\* traceFrequency)) points.
C10_RoundedSize ==
    (last_shape # NoShape /\ ui.pc = "idle") =>
        Len(shape_data.samples) = Max(10, RoundDiv(last_shape.rate, last_shape.frequency))

\* C10 amended: once set_shape has returned it has published exactly N = max(10, trunc(sampleRate /
\* traceFrequency)) points, the quotient being truncated (48000/80 gives 600,
\* 48000/70 gives 685), point i is curve.sample(i/N) scaled by volume, and the
\* table carries the curve's name.
C10_TableSize ==
    (last_shape # NoShape /\ ui.pc = "idle") =>
        LET n == IF last_shape.rate \div last_shape.frequency < 10
                 THEN 10 ELSE last_shape.rate \div last_shape.frequency
        IN  /\ Len(shape_data.samples) = n
            /\ samples_per_shape = n
            /\ shape_data.name = ShapeName(last_shape.shape)
            /\ \A i \in 0..(n - 1) :
                 LET p == ShapeSample(last_shape.shape, i, n)
                 IN  shape_data.samples[i + 1] =
                        XYSample((p.x * last_shape.volume) \div Unit,
                                 (p.y * last_shape.volume) \div Unit)

\* C10 witness: 48000 Hz at 70 Hz gives 685 points of the diagonal line at volume 0.8
C10_Witness ==
    /\ ui.pc = "idle"
    /\ last_shape = [shape |-> Line(-Unit, -Unit, Unit, Unit), frequency |-> 70,
                     rate |-> 48000, volume |-> 800]
    /\ Len(shape_data.samples) = 685
    /\ shape_data.samples[1] = XYSample(-800, -800)
    /\ shape_data.name = "Line"


----------------------------------------------------------------------------
(* Properties of the render callback *)

\* C1: the render callback never waits on the UI thread.  Every invocation of
\* write_audio_samples that has been entered returns, whatever the UI thread
\* does and however long it holds the shape write lock, the effect-parameter
\* write lock or the ring-buffer mutex: only the audio thread is assumed to
\* be scheduled.
C1_CallbackReturns == (cb.pc # "idle") ~> (cb.pc = "idle")

\* C1 witness: a callback reaches its return while set_shape holds the write lock
C1_Witness ==
    /\ cb.pc = "ret" /\ cb.path = "no_lock"
    /\ shape_lock.writer /\ ui.pc = "ss_name"

\* the callback is on a silence path
Silent == cb.path \in {"not_playing", "no_lock", "empty"}

\* C2: silence escape hatch.  A callback that found playback disabled, or the
\* shape read lock unavailable, or the table empty, hands back an output
\* buffer of unchanged length whose every sample (all frames, all channels)
\* is the equilibrium value of the sample format.
C2_SilenceWholeBuffer ==
    (cb.pc = "ret" /\ Silent) =>
        /\ Len(cb.data) > 0
        /\ Len(cb.data) % cb.channels = 0
        /\ \A k \in 1..Len(cb.data) : cb.data[k] = Equilibrium(cb.format)

\* C2 witness: an empty table, two frames of three u16 channels, all at 32768
C2_Witness ==
    /\ cb.pc = "ret" /\ cb.path = "empty"
    /\ cb.format = "U16" /\ cb.channels = 3 /\ Len(cb.data) = 6
    /\ cb.data[6] = 32768
    /\ is_playing

----------------------------------------------------------------------------
(* Properties of the engine (checked under Spec) *)

\* a table as set_shape builds it, with the name of its curve
Complete(d) ==
    \/ d = ShapeDataDefault
    \/ \E c \in EngineCurves :
          /\ d.name = ShapeName(c)
          /\ Len(d.samples) >= 10
          /\ d.samples = PreSample(c, Len(d.samples), EngineConfig.volume)

\* C3: a PreSampledShape is never observed half-written.  While the callback
\* holds the read guard no writer holds the lock and the table is a complete
\* one (all points and the name of one curve) of the length the callback
\* read; the name current_shape_name returns is the name of a complete table.
C3_NeverHalfWritten ==
    /\ "audio" \in shape_lock.readers =>
          /\ ~shape_lock.writer
          /\ Complete(shape_data)
          /\ cb.pc # "ret" => cb.n = Len(shape_data.samples)
    /\ ui.pc = "name_ret" =>
          /\ Complete(shape_data)
          /\ ui.ret = shape_data.name

\* C3 witness: set_shape has written the new points under the old name, and
\* the callback that ran meanwhile was refused the lock
C3_Witness ==
    /\ ui.pc = "ss_name"
    /\ ~Complete(shape_data)
    /\ shape_data.name = "Line" /\ ShapeName(ui.shape) = "Rectangle"
    /\ cb.pc = "ret" /\ cb.path = "no_lock"

\* the callback has just rendered its first frame
FirstFrameRendered == cb.pc \in {"frame", "store_idx"} /\ cb.frame_num = 1

\* C4 as stated: the first frame rendered from a table set_shape has
\* published is its point 0, under every interleaving.
C4_FirstFrameOfNewTable == (FirstFrameRendered /\ cb.fresh_table) => cb.idx = 0

\* C4 witness of the failure: the callback rendered point 1 of the new table
\* first, while set_shape had not yet stored its reset
C4_StaleIndex ==
    /\ FirstFrameRendered /\ cb.fresh_table
    /\ cb.idx = 1
    /\ ui.pc = "ss_reset"

StartStopStep ==
    \/ \E o \in StartOutcomes : Start(o) \/ Toggle(o)
    \/ \E ok \in BOOLEAN : StartPlay(ok)
    \/ StartFlag \/ StartStore \/ Stop \/ StopDrop

C9_CounterZeroAtStreamStart == (FirstFrameRendered /\ cb.first) => cb.start_total = 0

\* C9 amended: TotalSampleCounter is the number of frames rendered since the
\* engine was constructed.  Between callbacks it equals that number, the
\* first frame of a stream uses the number rendered by all earlier streams
\* (0 for the first stream), and it never decreases, across stop() and
\* start() included.
C9_CountsSinceConstruction ==
    /\ [](/\ cb.pc = "idle" => total_samples = frames_done
          /\ FirstFrameRendered => cb.start_total = frames_done - 1)
    /\ [][total_samples' >= total_samples]_vars

\* C9 witness: a second stream renders its first frame at counter 1
C9_Witness ==
    /\ FirstFrameRendered /\ cb.first
    /\ cb.start_total = 1 /\ frames_done = 2

----------------------------------------------------------------------------
(* Properties of the control surface (checked under Spec) *)

\* C11: N >= 10 always.  From construction on, whenever a render loop exists
\* (a stream has been built), whenever the callback holds the table, and from
\* the first set_shape on, the published table has at least 10 points; the
\* length the callback works with is that length.
C11_AtLeastTenPoints ==
    /\ (RunningStream.some \/ "audio" \in shape_lock.readers \/ last_shape # NoShape)
          => Len(shape_data.samples) >= 10
    /\ cb.pc \in {"load_idx", "load_total", "chain", "frame", "store_idx", "add_total"}
          => cb.n >= 10

\* C11 witness: the callback renders a 10-point table although the quotient
\* sample_rate / frequency is 6
C11_Witness ==
    /\ cb.pc = "frame" /\ cb.n = 10
    /\ last_shape # NoShape
    /\ last_shape.rate \div last_shape.frequency = 6

\* the messages start() reports when it fails
StartErrors ==
    { "No shape set - select a shape first", "Error: No output device found",
      "Error getting config", "Unsupported sample format", "Error building stream",
      "Error starting stream" }

\* a step in which start() (called directly or by toggle()) returns without
\* having started a stream, on an engine that held none
StartFails ==
    \/ /\ \E o \in StartOutcomes : Start(o) \/ Toggle(o)
       /\ ~stream.some /\ ~is_playing
       /\ ui'.pc = "idle"
    \/ StartPlay(FALSE)

\* C12: a failed start leaves the engine Stopped.  The failing step records
\* one of start()'s error messages in status, the playback flag is and stays
\* false, no stream handle is kept (neither in the engine nor in the hands of
\* the call, which has returned), table, index and counter are untouched; and
\* a stream only ever comes into being through a step of a start() or
\* toggle() call, never by a retry of the engine's own.
C12_FailedStartStopped ==
    /\ [][StartFails =>
            /\ status'.msg \in StartErrors
            /\ ~is_playing /\ ~is_playing'
            /\ stream' = NoStream /\ ui' = UiLocals
            /\ UNCHANGED <<shape_data, sample_index, total_samples>>]_vars
    /\ [][(~RunningStream.some /\ RunningStream'.some) =>
            \E o \in StartOutcomes : Start(o) \/ Toggle(o)]_vars

\* C12 witness: after a start() that failed to build its stream (the message
\* is still in status) a later start() has built and started one and set the
\* playback flag
C12_Witness ==
    /\ status.msg = "Error building stream"
    /\ ui.pc = "st_store" /\ ui.s.some
    /\ is_playing

\* C13: start() is idempotent while running.  A start() on an engine that
\* holds a stream returns at once: stream handle, playback flag, status,
\* sample rate, published table, SampleIndex and TotalSampleCounter are
\* unchanged and the call has built no second stream.
C13_StartIdempotent ==
    [][((\E o \in StartOutcomes : Start(o)) /\ stream.some) =>
          /\ UNCHANGED <<stream, is_playing, status, sample_rate, shape_data,
                         sample_index, total_samples, stream_fresh>>
          /\ ui' = UiLocals]_vars

\* C13 witness: an engine that holds a playing stream and has rendered, with
\* the UI thread free to call start()
C13_Witness ==
    /\ stream.some /\ is_playing /\ UiIdle
    /\ status.msg = "Playing"
    /\ total_samples > 0 /\ sample_index > 0
    /\ \E o \in StartOutcomes : ENABLED Start(o)

\* what a rendering callback changes: index, counter and the ring buffer
RenderState == <<sample_index, total_samples, samples, write_pos, samples_written>>

\* C14: stop() halts rendering.  (1) stop() ends with the playback flag
\* false, the stream handle dropped and status "Stopped", from any state.
\* (2) While stop() is between clearing the flag and dropping the stream the
\* flag stays false; a callback that reads the flag then fills its whole
\* buffer with silence and returns without changing SampleIndex,
\* TotalSampleCounter or the ring buffer; once the stream is dropped no
\* callback runs at all.  (3) A callback already rendering is not cut short:
\* it returns only with every frame of its buffer rendered, and the stream is
\* dropped only between callbacks.
C14_StopHalts ==
    /\ [][StopDrop => (~is_playing' /\ stream' = NoStream /\ status' = Msg("Stopped")
                       /\ ui' = UiLocals)]_vars
    /\ [](ui.pc = "stop_drop" => ~is_playing)
    /\ [][(CbCheckPlaying /\ ~is_playing) =>
            /\ cb'.pc = "ret" /\ cb'.path = "not_playing"
            /\ \A k \in 1..Len(cb'.data) : cb'.data[k] = Equilibrium(cb.format)
            /\ Len(cb'.data) = Len(cb.data)
            /\ UNCHANGED RenderState]_vars
    /\ [][(CbReturn /\ cb.path = "not_playing") => UNCHANGED RenderState]_vars
    /\ [](~RunningStream.some => cb.pc = "idle")
    /\ []((cb.pc = "ret" /\ cb.path = "render") =>
            /\ cb.frame_num = cb.num_frames
            /\ cb.num_frames * cb.channels = Len(cb.data)
            /\ \A k \in 1..Len(cb.data) : cb.data[k] # Stale)
    /\ [][(StopDrop /\ stream.some) => cb.pc = "idle"]_vars

\* C14 witness: stop() has cleared the flag while a callback is between the
\* two frames of its buffer
C14_Witness ==
    /\ ui.pc = "stop_drop" /\ ~is_playing
    /\ cb.pc = "frame" /\ cb.frame_num = 1 /\ cb.num_frames = 2

----------------------------------------------------------------------------
(* Properties of the effect chain (checked under SpecChain) *)

\* the effects of s applied first to last, each to the previous result
RECURSIVE OneAfterAnother(_, _, _, _)
OneAfterAnother(s, p, cs, rate) ==
    IF s = <<>> THEN p
    ELSE EffectApply(s[Len(s)], OneAfterAnother(SubSeq(s, 1, Len(s) - 1), p, cs, rate), cs, rate)

IsEnabled(e) == e.enabled

\* C15: apply returns what the enabled effects give when applied one after
\* another in the order they were added, each at the same time; the disabled
\* ones stay in the chain and change nothing, and a chain with no enabled
\* effect returns the point it was given.
C15_ChainFoldsEnabledInOrder ==
    /\ [](result.fn = "apply" =>
            /\ result.out = OneAfterAnother(SelectSeq(result.effects, IsEnabled),
                                            result.p, result.cs, ChainRate)
            /\ result.out = ChainApply(SelectSeq(result.effects, IsEnabled),
                                       result.p, result.cs, ChainRate)
            /\ (\A i \in 1..Len(result.effects) : ~result.effects[i].enabled)
                  => result.out = result.p)
    /\ [][(\E p \in ChainPoints, cs \in 0..MaxTime : ChainApplyCall(p, cs))
            => call' = call]_vars
    /\ [][\A e \in ChainEffects : ChainAdd(e) => call'.effects = call.effects \o <<e>>]_vars

\* a scale before a translation, a disabled rotation between them: the order
\* shows in the result, and the disabled effect is still in the chain
C15_Witness ==
    /\ result.fn = "apply"
    /\ result.effects = <<ScaleNew(2 * Unit, Unit),
                          [RotateWithSpeed(1, ChainRate) EXCEPT !.enabled = FALSE],
                          TranslateNew(Unit \div 2, 0)>>
    /\ result.p = XYSample(Unit, 0)
    /\ result.out = XYSample(2 * Unit + Unit \div 2, 0)

----------------------------------------------------------------------------
(* Properties of the scene (checked under SpecScene) *)

\* the positions (1-based) of the enabled shapes
EnabledShapes(shapes) == { i \in 1..Len(shapes) : shapes[i].enabled }

\* the weight of the enabled shapes before position i
RECURSIVE WeightBefore(_, _)
WeightBefore(shapes, i) ==
    IF i <= 1 THEN 0
    ELSE WeightBefore(shapes, i - 1)
         + (IF shapes[i - 1].enabled THEN shapes[i - 1].weight ELSE 0)

\* the last sample went to shape k of the scene with the parameter
\* (t - start) / (end - start) of k's share of [0, 1)
RoutedTo(k) ==
    LET W == WeightBefore(call.shapes, Len(call.shapes) + 1)
        start == WeightBefore(call.shapes, k)
        w == call.shapes[k].weight
    IN  /\ start * result.td <= result.tn * W
        /\ result.tn * W < (start + w) * result.td
        /\ result.to = "shape"
        /\ result.idx = k - 1
        /\ result.ln * (w * result.td) = (result.tn * W - start * result.td) * result.ld

\* C16: in a scene whose enabled sub-shapes have positive weights, sample(t)
\* for t in [0, 1) delegates to the enabled sub-shape whose share of [0, 1),
\* laid out in order and proportional to the weights, contains t, and hands it
\* the position of t within that share.
C16_WeightedRouting ==
    (/\ result.fn = "sample"
     /\ result.tn < result.td
     /\ EnabledShapes(call.shapes) # {}
     /\ \A i \in EnabledShapes(call.shapes) : call.shapes[i].weight > 0)
    => \E k \in EnabledShapes(call.shapes) : RoutedTo(k)

\* two shapes of weight 1.0, the first disabled after it was added: a sample
\* at t = 1/6 is delegated to the disabled shape
C16_DisabledShapeSampled ==
    /\ result.fn = "sample"
    /\ Len(call.shapes) = 2
    /\ ~call.shapes[1].enabled /\ call.shapes[2].enabled
    /\ result.tn = 1
    /\ result.to = "shape" /\ result.idx = 0

----------------------------------------------------------------------------
(* Properties of the Lfo (checked under SpecLfo) *)

Midpoint(lfo) == (lfo.min + lfo.max) \div 2

\* C17 as stated: an enabled Lfo with frequency 0 returns (min + max) / 2, and
\* an Lfo with min = max returns that value, whatever the waveform, the time
\* and the phase offset.
C17_DegenerateGivesMidpoint ==
    result.fn = "lfo_sample" =>
        /\ (call.enabled /\ call.frequency = 0) => result.out = Midpoint(call)
        /\ call.min = call.max => result.out = call.min

\* the waveform value at the phase offset, mapped from [-1, 1] to [min, max]
ValueAtOffset(lfo) ==
    lfo.min + ((((WaveformSample(lfo.waveform, lfo.phase_offset % Unit) + Unit) \div 2)
                * (lfo.max - lfo.min)) \div Unit)

\* C17 as amended: an Lfo with min = max returns that value and a disabled Lfo
\* returns (min + max) / 2; an enabled Lfo with frequency 0 returns at every
\* time the waveform's value at the phase offset mapped to [min, max], which
\* is the midpoint for a sine or a triangle with phase offset 0 or 1/2.
C17_DegenerateLfo ==
    result.fn = "lfo_sample" =>
        /\ call.min = call.max => result.out = call.min
        /\ ~call.enabled => result.out = Midpoint(call)
        /\ (call.enabled /\ call.frequency = 0) =>
              /\ result.out = ValueAtOffset(call)
              /\ result.out >= call.min /\ result.out <= call.max
              /\ (call.waveform \in {"Sine", "Triangle"} /\ call.phase_offset \in {0, Unit \div 2})
                    => result.out = Midpoint(call)

\* an enabled square Lfo with frequency 0 and no phase offset, sampled after
\* time 0: it returns max, not the midpoint
C17_Witness ==
    /\ result.fn = "lfo_sample"
    /\ result.cs > 0
    /\ call.enabled /\ call.frequency = 0
    /\ call.waveform = "Square" /\ call.phase_offset = 0
    /\ call.min < call.max
    /\ result.out = call.max

----------------------------------------------------------------------------
(* The ring buffer's cursor (checked under SpecBuf) *)

\* C18: whatever push, push_slice, clear and the readers do, in whatever
\* order, the write cursor is a valid slot index and the number of slots is
\* the capacity the buffer was constructed with.
C18_CursorInRange ==
    /\ [](Capacity >= 1 /\ write_pos \in 0..(Capacity - 1))
    /\ [][Len(samples') = Len(samples)]_vars

\* a slice of three samples pushed into a fresh buffer of two slots: the
\* cursor went round once and stands at slot 1
C18_Witness ==
    /\ Capacity = 2
    /\ last_op = [op |-> "push_slice", ret |-> TRUE]
    /\ samples_written = 3
    /\ write_pos = 1

----------------------------------------------------------------------------
(* Properties of the frame loop (checked under SpecRender) *)

\* the samples of frame f (0-based) in an output buffer
FrameOf(data, f, channels) == SubSeq(data, f * channels + 1, (f + 1) * channels)

\* a frame of `channels` samples carrying the point e
FrameCarrying(e, channels, format) ==
    [c \in 1..channels |->
        IF channels = 1 THEN FromSample(format, (e.x + e.y) \div 2)
        ELSE IF c = 1 THEN FromSample(format, e.x)
        ELSE IF c = 2 THEN FromSample(format, e.y)
        ELSE Equilibrium(format)]

\* the post-effect point of frame f of the running callback
PostEffect(f) ==
    ChainApply(cb.chain, shape_data.samples[((cb.start_idx + f) % cb.n) + 1],
               cb.start_total + f, cb.rate)

\* C19: every rendered frame carries its post-effect point (x, y): with two
\* or more channels x on channel 0, y on channel 1 and equilibrium on the
\* others; with one channel the mix (x + y) / 2.
C19_ChannelMapping ==
    \A f \in 0..(cb.frame_num - 1) :
        FrameOf(cb.data, f, cb.channels) = FrameCarrying(PostEffect(f), cb.channels, cb.format)

\* a rendered buffer of two three-channel frames whose first frame carries a
\* point with x # y
C19_Witness ==
    /\ cb.pc = "ret" /\ cb.path = "render"
    /\ cb.channels = 3 /\ cb.frame_num = 2
    /\ PostEffect(0).x # PostEffect(0).y
    /\ cb.data[1] # cb.data[2]
    /\ cb.data[3] = Equilibrium(cb.format) /\ cb.data[6] = Equilibrium(cb.format)

\* the callback is between its loads and its store
Walking == cb.pc \in {"chain", "frame", "store_idx"}

----------------------------------------------------------------------------
(* Decimation (checked under SpecDecim) *)

\* C21: with no push dropped, exactly one of every 8 consecutive rendered
\* frames is pushed to the ring buffer: of the k frames rendered so far
\* between floor(k / 8) and ceil(k / 8) were pushed, and a frame that follows
\* a pushed frame is not pushed, also across callbacks and after the wrap.
C21_EveryEighthFrame ==
    /\ samples_written * VIZ_DECIMATION <= frames_done + (VIZ_DECIMATION - 1)
    /\ frames_done <= samples_written * VIZ_DECIMATION + (VIZ_DECIMATION - 1)

\* two frames rendered by two callbacks, the first at the last point of the
\* table, the second at point 0: both were pushed
C21_PushedTwice ==
    /\ frames_done = 2 /\ samples_written = 2
    /\ cb.start_idx = 0 /\ cb.n = DecimN
    /\ (DecimN - 1) % VIZ_DECIMATION = 0

----------------------------------------------------------------------------
(* The effect configuration under contention (checked under Spec) *)

\* the pre-sampled point of frame f of the running callback
TablePoint(f) == shape_data.samples[((cb.start_idx + f) % cb.n) + 1]

\* C22: a callback that holds the shape and finds the effect parameters
\* write-locked takes the empty chain and goes on to render: every frame of
\* its buffer carries the unmodified pre-sampled point, and it stores the
\* advanced index and adds its frames to the counter like any other; a
\* callback that finds the parameters free builds the chain they configure.
C22_EmptyChainOnContention ==
    /\ [][CbChain =>
            /\ "audio" \in shape_lock.readers
            /\ cb'.chain = IF effects_lock THEN <<>> ELSE BuildChain(effect_params)
            /\ cb'.pc = "frame"
            /\ cb'.data = cb.data
            /\ UNCHANGED <<effects_lock, effect_params, sample_index, total_samples>>]_vars
    /\ [](cb.chain = <<>> =>
            \A f \in 0..(cb.frame_num - 1) :
                FrameOf(cb.data, f, cb.channels)
                    = FrameCarrying(TablePoint(f), cb.channels, cb.format))
    /\ [](cb.pc \in {"frame", "store_idx", "add_total"} => cb.path = "none")
    /\ [][(cb.pc = "frame" /\ cb'.pc # "frame") =>
            cb'.pc = "store_idx" /\ cb'.frame_num = cb.num_frames]_vars
    /\ [][CbStoreIdx =>
            /\ sample_index' = (cb.start_idx + cb.num_frames) % cb.n
            /\ cb'.pc = "add_total"]_vars
    /\ [][CbAddTotal =>
            /\ total_samples' = total_samples + cb.num_frames
            /\ cb'.pc = "ret" /\ cb'.path = "render"]_vars

\* set_effects holds the write lock on a rotation it wrote earlier; the
\* callback has rendered its two frames with the empty chain and has advanced
\* the index and the counter
C22_Witness ==
    /\ effects_lock /\ ui.pc = "se_write"
    /\ BuildChain(effect_params) # <<>>
    /\ cb.pc = "ret" /\ cb.path = "render"
    /\ cb.chain = <<>>
    /\ cb.num_frames = 2
    /\ sample_index = 2 /\ total_samples = 2
    /\ FrameOf(cb.data, 1, cb.channels) = FrameCarrying(TablePoint(1), cb.channels, cb.format)
    /\ FrameCarrying(TablePoint(1), cb.channels, cb.format)
         # FrameCarrying(ChainApply(BuildChain(effect_params), TablePoint(1), 1, cb.rate),
                         cb.channels, cb.format)

----------------------------------------------------------------------------
(* push_slice and push (checked under SpecSlice) *)

\* the buffer as push sees it
BufferState == [slots |-> samples, pos |-> write_pos, written |-> samples_written]

\* push called on each element of sl in order, every call acquiring the lock
RECURSIVE PushEach(_, _)
PushEach(b, sl) == IF sl = <<>> THEN b ELSE PushEach(PushState(b, Head(sl)), Tail(sl))

\* C23: a push_slice(sl) that acquires the lock leaves slots, cursor and
\* counter as push on each element of sl in order would, for every length of
\* sl; one that finds the lock held returns failure and writes nothing.  push
\* itself is the function it is folded with.
C23_SliceIsBatchedPush ==
    /\ [][(last_op'.op = "push_slice") =>
            \A sl \in PatternSlices :
                PushSlice(sl) =>
                    IF TryLockOk
                    THEN /\ last_op'.ret
                         /\ BufferState' = PushEach(BufferState, sl)
                    ELSE /\ ~last_op'.ret
                         /\ BufferState' = BufferState]_vars
    /\ [][(last_op'.op = "push") =>
            \A s \in SampleValues :
                (Push(s) /\ TryLockOk) => BufferState' = PushState(BufferState, s)]_vars

\* a slice of three different-valued positions pushed into a buffer of two
\* slots in which one sample was stored before: the slice went round the ring
C23_Witness ==
    /\ Capacity = 2
    /\ last_op = [op |-> "push_slice", ret |-> TRUE]
    /\ samples_written = 4
    /\ write_pos = 0
    /\ samples[1] # samples[2]

----------------------------------------------------------------------------
(* clear (checked under SpecBuf) *)

\* C24: clear() never waits: it can run whether or not the lock is free.
\* With the lock free it sets each of the C slots to (0, 0) and the cursor to
\* 0; with the lock held by a reader it changes nothing.
C24_ClearBestEffort ==
    /\ [](ENABLED Clear)
    /\ [][Clear =>
            IF TryLockOk
            THEN /\ Len(samples') = Len(samples)
                 /\ \A i \in 1..Len(samples') : samples'[i] = XYSample(0, 0)
                 /\ write_pos' = 0
                 /\ inner_lock' = 0
            ELSE /\ UNCHANGED <<samples, write_pos, samples_written, inner_lock>>
                 /\ UNCHANGED <<rd_pc, rd_op, rd_result>>]_vars

\* clear() found the lock held by a reader while the buffer of two slots held
\* one stored sample and the cursor stood at 1: nothing was changed
C24_Witness ==
    /\ last_op = [op |-> "clear", ret |-> FALSE]
    /\ inner_lock # 0
    /\ Capacity = 2
    /\ write_pos = 1
    /\ samples[1] # XYDefault

----------------------------------------------------------------------------
(* The silence paths and the shared state (checked under Spec) *)

\* the callback is past its checks and walks the table
Rendering == cb.pc \in {"load_idx", "load_total", "chain", "frame", "store_idx", "add_total"}

\* C25: a silent callback changes no shared state.  A callback on a silence
\* path (playback disabled, shape lock unavailable, empty table) goes from
\* its checks straight to its return, and none of its steps, from entry to
\* return, changes SampleIndex, TotalSampleCounter or the ring buffer
\* (slots, cursor, total written); so the counter still equals the number of
\* frames rendered and the next rendering callback loads the index and the
\* counter the silent one found.
C25_SilentChangesNothing ==
    /\ [](Silent => cb.pc = "ret")
    /\ [][(cb' # cb /\ ~Rendering) => UNCHANGED RenderState]_vars
    /\ [][(cb' # cb /\ Silent') =>
            /\ cb.pc \in {"check_playing", "try_read"}
            /\ Len(cb'.data) = Len(cb.data)]_vars
    /\ [](~Rendering => total_samples = frames_done)

\* a callback of two frames found the shape lock held by set_shape after one
\* frame had been rendered and stored: it returns silence with index,
\* counter and ring buffer as the rendering callback left them
C25_Witness ==
    /\ cb.pc = "ret" /\ cb.path = "no_lock"
    /\ shape_lock.writer
    /\ sample_index = 1 /\ total_samples = 1
    /\ samples_written = 1 /\ write_pos = 0
    /\ samples[1] # XYDefault

----------------------------------------------------------------------------
(* The playback flag and the stream handle (checked under Spec) *)

\* C26: playback flag and stream handle agree.  Whenever no call of the
\* control surface is in progress (after any sequence of start, succeeding
\* or failing, stop, toggle, set_shape and set_effects), is_playing() is true
\* exactly when the engine holds a stream handle; so toggle() on an engine
\* that holds a stream runs stop() and on one that holds none runs start().
C26_FlagMatchesStream ==
    /\ [](UiIdle => (is_playing <=> stream.some))
    /\ [][(\E o \in StartOutcomes : Toggle(o)) =>
            IF stream.some
            THEN /\ ~is_playing' /\ ui'.pc = "stop_drop"
                 /\ UNCHANGED <<stream, status>>
            ELSE /\ UNCHANGED <<is_playing, stream>>
                 /\ \E o \in StartOutcomes : StartBody(o)]_vars

\* start() has just failed at play() on an engine that was stopped after it
\* had rendered: no stream handle is held and the flag is false
C26_Witness ==
    /\ UiIdle
    /\ status = Msg("Error starting stream")
    /\ ~is_playing /\ ~stream.some
    /\ total_samples > 0

----------------------------------------------------------------------------
(* The table and the rate of the stream (checked under SpecRate) *)

\* the engine holds a stream and the playback flag is set
EngineRendering == stream.some /\ is_playing

\* C27: the table in use while Rendering matches the stream's sample rate.
\* Whenever the engine is Rendering, the published table has
\* max(10, sampleRate / traceFrequency) points for the sampleRate the running
\* callback uses for effect time, the device rate adopted by start().
C27_TableMatchesStreamRate ==
    EngineRendering =>
        /\ sample_rate = stream.rate
        /\ Len(shape_data.samples) = SamplesPerShape(stream.rate, config.frequency)

\* the callback of a 44.1 kHz stream walks the 12-point table set_shape built
\* at 48 kHz before start(): one pass takes 12 / 44100 s, not 1 / 4000 s
C27_StaleTableRendered ==
    /\ EngineRendering
    /\ stream.rate = 44100 /\ sample_rate = 44100
    /\ cb.pc = "frame" /\ cb.rate = 44100 /\ cb.n = 12
    /\ Len(shape_data.samples) = 12
    /\ SamplesPerShape(44100, config.frequency) = 11
    /\ status = PlayingMsg(shape_data.name, 4000, config.volume)

----------------------------------------------------------------------------
(* The counter of the ring buffer (checked under SpecSlice) *)

\* the step is a call of push or of push_slice
ProducerCall ==
    \/ \E s \in SampleValues : Push(s)
    \/ \E sl \in PatternSlices : PushSlice(sl)

\* C28: samples_written counts accepted samples.  It is 0 at construction; a
\* push that takes the lock adds 1 and a push_slice that takes the lock adds
\* the length of its slice, so in every state it is the number of samples
\* accepted since construction; it never decreases; a push or push_slice
\* that finds the lock held, every step of get_samples and
\* get_recent_samples, and clear() leave it unchanged.
C28_CountsAccepted ==
    /\ (last_op.op = "none" => samples_written = 0)
    /\ [][samples_written' >= samples_written]_vars
    /\ [][(\E s \in SampleValues : Push(s)) =>
            /\ last_op'.ret = TryLockOk
            /\ samples_written' = samples_written + (IF TryLockOk THEN 1 ELSE 0)]_vars
    /\ [][\A sl \in PatternSlices :
            PushSlice(sl) =>
                /\ last_op'.ret = TryLockOk
                /\ samples_written' = samples_written + (IF TryLockOk THEN Len(sl) ELSE 0)]_vars
    /\ [][~ProducerCall => UNCHANGED samples_written]_vars

\* after pushes and a slice have put five samples into a buffer of two slots,
\* clear() has emptied the slots and left the count at five
C28_Witness ==
    /\ Capacity = 2
    /\ last_op = [op |-> "clear", ret |-> TRUE]
    /\ samples_written = 5
    /\ stored = 0
    /\ \A i \in 1..2 : samples[i] = XYDefault

----------------------------------------------------------------------------
(* The hand-off of CC values (checked under SpecCc) *)

\* every store of every set has arrived and no poll is in progress
CcQuiet == call.pending = <<>> /\ call.pc = "idle"

\* C29: the hand-off loses no update.  poll returns only values that were
\* set; and when the sets made so far have all arrived, no flag is left
\* raised and no poll is in progress, the last Some value poll returned is
\* the last value set: a value whose flag was raised is not left unreported
\* and not replaced by an older one.
C29_NoUpdateLost ==
    /\ (result # NoCall /\ result.some) =>
          \E k \in 1..Len(call.sets) : call.sets[k] = result.value
    /\ (CcQuiet /\ call.sets # <<>> /\ call.changed = 0) =>
          call.reported = [some |-> TRUE, value |-> call.sets[Len(call.sets)]]

\* set(cc, 1) and set(cc, 2) have both arrived and the flag is down, yet the
\* last value poll handed over is 1: the 2 is never reported
C29_UpdateLost ==
    /\ CcQuiet
    /\ call.sets = <<1, 2>>
    /\ call.values = 2 /\ call.changed = 0
    /\ call.reported = [some |-> TRUE, value |-> 1]
    /\ result = [fn |-> "poll", some |-> FALSE, value |-> 0]

----------------------------------------------------------------------------
(* MIDI learn (checked under SpecMidi) *)

\* C30: MIDI learn targets the chosen mapping.  Whenever learning is Some(i),
\* i < mappings.len() and mappings[i] is the mapping start_learn was called
\* for; and a mapping that a learn has assigned a CC to is that mapping.
C30_LearnTargetsChosen ==
    /\ call.learning.some =>
          /\ call.learning.idx < Len(call.mappings)
          /\ call.mappings[call.learning.idx + 1].id = call.target
    /\ call.learned # 0 => call.learned = call.target

\* start_learn(1) chose the second of three mappings, remove_mapping(0)
\* removed the first, and the CC that arrived next went to the third one
C30_WrongMappingLearned ==
    /\ call.added = 3 /\ Len(call.mappings) = 2
    /\ call.target = 2 /\ call.learned = 3
    /\ ~call.learning.some
    /\ call.mappings[1].id = 2 /\ call.mappings[1].cc = 0
    /\ call.mappings[2].id = 3 /\ call.mappings[2].cc = 1
    /\ result = [fn |-> "poll", updates |-> <<>>]

=============================================================================
